---- MODULE Spec2Model ----
(***************************************************************************)
(* GameObjects (entity store) and ArrivalUtils (continuous-time resource   *)
(* model and arrival resolution) of the Dark Forest client.                *)
(*                                                                         *)
(* Units.  The source computes with JavaScript numbers.  Here time is in   *)
(* whole seconds (Date.now()/1000, atTimeMillis/1000), energy, energyCap   *)
(* and energyGrowth are held multiplied by CONTRACT_PRECISION, so that     *)
(* Math.floor(x * CONTRACT_PRECISION * ..) / CONTRACT_PRECISION is an      *)
(* integer, and silver is in whole units.  Math.exp is evaluated by its    *)
(* power series in fixed point.  The spatial index (LayeredMap) and the    *)
(* NotificationManager are collaborators outside the class and are not     *)
(* part of the state.                                                      *)
(***************************************************************************)
EXTENDS Integers, Sequences, FiniteSets, TLC

VARIABLES
    now,              \* Date.now(), in seconds
    heap,             \* the Planet objects: reference -> fields
    planets,          \* this.planets: location id -> reference, NoRef when absent
    myPlanets,        \* this.myPlanets, likewise
    artifacts,        \* this.artifacts: artifact id -> fields
    arrivals,         \* this.arrivals: voyage id -> ArrivalWithTimer
    planetArrivalIds, \* this.planetArrivalIds: location id -> voyage ids
    timers,           \* the setTimeout callbacks that have not run nor been cleared
    txs,              \* the store's own unconfirmed* records
    emitted,          \* ids published on planetUpdated$ by the last operation
    diff,             \* the PlanetDiff returned by the last arrive
    lastOp,           \* the last operation and its arguments
    appliedCount,     \* voyage id -> number of arrive() calls made for it
    ingestCount,      \* voyage id -> number of times an arrival list supplied it
    cancelled,        \* timers that were pending for a territory when a list replaced its arrivals
    opCount,          \* number of operations counted against the bounds
    planetLocationMap,\* this.planetLocationMap: location id -> WorldLocation
    coordsToLocation, \* this.coordsToLocation: coordinates -> WorldLocation
    wormholes,        \* this.wormholes: artifact id -> [from, to]
    intentLog,        \* action id -> the onTxIntent and clearUnconfirmedTxIntent calls made for it
    contractConstants, \* the ruleset handed to the constructor: DESTROY_THRESHOLD
    touchedPlanetIds  \* this.touchedPlanetIds: the ids the contract has a planet for

vars == <<now, heap, planets, myPlanets, artifacts, arrivals,
          planetArrivalIds, timers, txs, emitted, diff, lastOp,
          appliedCount, ingestCount, cancelled, opCount,
          planetLocationMap, coordsToLocation, wormholes, intentLog,
                   contractConstants, touchedPlanetIds>>

(***************************************************************************)
(* Bounds of the model.                                                    *)
(***************************************************************************)
MaxTime == 4
MaxOps == 2
MaxReplaces == 2
MaxOverlayOps == 5
MaxLearns == 3

(* the writes between the reads of one run *)
MaxWrites == 2

(* the largest weight of a planet type in a ruleset *)
MaxWeight == 2

(***************************************************************************)
(* Program constants.                                                      *)
(***************************************************************************)
CONTRACT_PRECISION == 1000
EMPTY_ADDRESS == "0x0"
(* const DESTROY_THRESHOLD = contractConstants.DESTROY_THRESHOLD *)
DESTROY_THRESHOLD == contractConstants.DESTROY_THRESHOLD
PHOTOID_ACTIVATION_DELAY == 2
ExpScale == 10000
ExpTerms == 12

ME == "me"
RIVAL == "rival"
NoRef == 0
Undefined == 0

Min(a, b) == IF a < b THEN a ELSE b

(***************************************************************************)
(* Utils.hasOwner and ArtifactUtils.isActivated.                           *)
(***************************************************************************)
(* every planet taken to have an owner *)
hasOwner_Always(planet) == TRUE

hasOwner(planet) == planet.owner # EMPTY_ADDRESS

isActivated(a) == a.lastActivated > a.lastDeactivated

(***************************************************************************)
(* Math.exp(x) for x = xMilli/1000 >= 0, times ExpScale: the sum of the    *)
(* first ExpTerms terms of the power series.                               *)
(***************************************************************************)
RECURSIVE ExpSeries(_, _, _)
ExpSeries(k, term, xMilli) ==
    IF k > ExpTerms \/ term = 0 THEN 0
    ELSE term + ExpSeries(k + 1, (term * xMilli) \div (1000 * k), xMilli)

Exp(xMilli) == ExpSeries(1, ExpScale, xMilli)

(* Math.exp(-x), in thousandths *)
ExpNeg(xMilli) == (ExpScale * 1000) \div Exp(xMilli)

getSilverOverTime(planet, startTime, endTime) ==
    IF ~hasOwner(planet) THEN planet.silver
    ELSE IF planet.silver > planet.silverCap THEN planet.silverCap
    ELSE LET timeElapsed == endTime - startTime
         IN  Min(timeElapsed * planet.silverGrowth + planet.silver, planet.silverCap)

(* an empty planet that has an owner regrows from its growth rate *)
getEnergyAtTime_Regrows(planet, atTime) ==
    IF planet.energy = 0
    THEN IF hasOwner(planet)
         THEN Min(planet.energyGrowth * (atTime - planet.lastUpdated), planet.energyCap)
         ELSE 0
    ELSE IF ~hasOwner(planet) THEN planet.energy
    ELSE IF planet.planetType = "SILVER_BANK" /\ planet.energy > planet.energyCap
         THEN planet.energyCap
    ELSE LET timeElapsed == atTime - planet.lastUpdated
             e == ExpNeg((4 * planet.energyGrowth * timeElapsed * 1000) \div planet.energyCap)
             denominator == ((planet.energyCap - planet.energy) * e) \div planet.energy + 1000
         IN  (planet.energyCap * 1000) \div denominator

getEnergyAtTime(planet, atTime) ==
    IF planet.energy = 0 THEN 0
    ELSE IF ~hasOwner(planet) THEN planet.energy
    ELSE IF planet.planetType = "SILVER_BANK" /\ planet.energy > planet.energyCap
         THEN planet.energyCap
    ELSE LET timeElapsed == atTime - planet.lastUpdated
             e == ExpNeg((4 * planet.energyGrowth * timeElapsed * 1000) \div planet.energyCap)
             \* denominator, in thousandths
             denominator == ((planet.energyCap - planet.energy) * e) \div planet.energy + 1000
         IN  (planet.energyCap * 1000) \div denominator

applyUpgrade(planet, upgrade) ==
    [planet EXCEPT
       !.speed = (((planet.speed * upgrade.energyCapMultiplier) \div 100)
                    * upgrade.speedMultiplier) \div 100,
       !.energyGrowth = (planet.energyGrowth * upgrade.energyGroMultiplier) \div 100,
       !.range = (planet.range * upgrade.rangeMultiplier) \div 100,
       !.defense = (planet.defense * upgrade.defMultiplier) \div 100]

(* the activation delay not waited for *)
ActivePhotoids_NoDelay(planetArtifacts, atTime) ==
    SelectSeq(planetArtifacts,
              LAMBDA a : a.artifactType = "PhotoidCannon" /\ isActivated(a))

(* planetArtifacts.find(...): the first matching artifact, or none *)
ActivePhotoids(planetArtifacts, atTime) ==
    SelectSeq(planetArtifacts,
              LAMBDA a : /\ a.artifactType = "PhotoidCannon"
                         /\ isActivated(a)
                         /\ atTime - a.lastActivated >= PHOTOID_ACTIVATION_DELAY)

(* the early return dropped *)
updateApplies_Always(planet, atTime) == TRUE

(* does updatePlanetToTime pass its early return (and so call setPlanet)? *)
updateApplies(planet, atTime) == ~(atTime < planet.lastUpdated)

updatePlanetToTime(planet, planetArtifacts, atTime) ==
    IF ~updateApplies(planet, atTime) THEN planet
    ELSE LET p1 == [planet EXCEPT
                      !.silver = getSilverOverTime(planet, planet.lastUpdated, atTime),
                      !.energy = getEnergyAtTime(planet, atTime),
                      !.lastUpdated = atTime]
             found == ActivePhotoids(planetArtifacts, atTime)
         IN  IF Len(found) > 0 /\ p1.localPhotoidUpgrade = Undefined
             THEN applyUpgrade([p1 EXCEPT !.localPhotoidUpgrade = found[1].id],
                               found[1].timeDelayedUpgrade)
             ELSE p1

(* the defense left out of the damage *)
EffectiveDamage_NoDefense(energyArriving, defense) == energyArriving * CONTRACT_PRECISION

(* Math.floor((energyArriving * CONTRACT_PRECISION * 100) / defense) / CONTRACT_PRECISION *)
EffectiveDamage(energyArriving, defense) ==
    (energyArriving * CONTRACT_PRECISION * 100) \div defense

(* the defender's cost divided by the defense instead of multiplied *)
ConquestEnergy_Divided(energyArriving, energy, defense) ==
    energyArriving * CONTRACT_PRECISION - (energy * 100) \div defense

(* energyArriving - Math.floor((energy * CONTRACT_PRECISION * defense) / 100) / CONTRACT_PRECISION *)
ConquestEnergy(energyArriving, energy, defense) ==
    energyArriving * CONTRACT_PRECISION - (energy * defense) \div 100

(* the destroyed check dropped *)
absorbsNothing_Never(toPlanet) == FALSE

(* if (toPlanet.destroyed) return { previous: toPlanet, current: toPlanet } *)
absorbsNothing(toPlanet) == toPlanet.destroyed

(* the previous owner left out of the destroy rule *)
destroys_AnyOwner(prevPlanet, toPlanet, damage) ==
    /\ DESTROY_THRESHOLD > 0
    /\ damage > toPlanet.energy * DESTROY_THRESHOLD

(* if (prevPlanet.owner != EMPTY_ADDRESS && DESTROY_THRESHOLD > 0)          *)
(*   if (preciseEnergyArriving > toPlanet.energy * DESTROY_THRESHOLD)       *)
destroys(prevPlanet, toPlanet, damage) ==
    /\ prevPlanet.owner # EMPTY_ADDRESS
    /\ DESTROY_THRESHOLD > 0
    /\ damage > toPlanet.energy * DESTROY_THRESHOLD

(* "apply energy": attack, conquest (with the destroy rule) or reinforcement *)
applyEnergy(toPlanet, prevPlanet, arrival) ==
    LET energyArriving == arrival.energyArriving
        damage == EffectiveDamage(energyArriving, toPlanet.defense)
    IN  IF arrival.player # toPlanet.owner
        THEN IF toPlanet.energy > damage
             THEN [toPlanet EXCEPT !.energy = toPlanet.energy - damage]
             ELSE [toPlanet EXCEPT
                     !.destroyed =
                         IF destroys(prevPlanet, toPlanet, damage)
                         THEN TRUE ELSE toPlanet.destroyed,
                     !.owner = arrival.player,
                     !.energy = ConquestEnergy(energyArriving, toPlanet.energy,
                                               toPlanet.defense)]
        ELSE [toPlanet EXCEPT !.energy = toPlanet.energy + energyArriving * CONTRACT_PRECISION]

(* the clamp dropped *)
clampSilverBank_NoClamp(toPlanet) == toPlanet

clampSilverBank(toPlanet) ==
    IF toPlanet.planetType = "SILVER_BANK" /\ toPlanet.energy > toPlanet.energyCap
    THEN [toPlanet EXCEPT !.energy = toPlanet.energyCap]
    ELSE toPlanet

(* silver added without the clamp *)
applySilver_NoClamp(toPlanet, arrival) ==
    [toPlanet EXCEPT !.silver = toPlanet.silver + arrival.silverMoved]

(* "apply silver" *)
applySilver(toPlanet, arrival) ==
    IF toPlanet.silver + arrival.silverMoved > toPlanet.silverCap
    THEN [toPlanet EXCEPT !.silver = toPlanet.silverCap]
    ELSE [toPlanet EXCEPT !.silver = toPlanet.silver + arrival.silverMoved]

(* "transfer artifact if necessary" *)
transferArtifact(toPlanet, arrival) ==
    IF arrival.artifactId # Undefined
    THEN [toPlanet EXCEPT !.heldArtifactIds = Append(toPlanet.heldArtifactIds,
                                                     arrival.artifactId)]
    ELSE toPlanet

(* the destination is never checked *)
wrongDestination_Never(toPlanet, arrival) == FALSE

(* if (toPlanet.locationId !== arrival.toPlanet) throw new Error(...) *)
wrongDestination(toPlanet, arrival) == toPlanet.locationId # arrival.toPlanet

(***************************************************************************)
(* arrive: threw tells whether it raised; planet is toPlanet as it is left *)
(* (mutated in place); previous and current are the returned PlanetDiff.   *)
(***************************************************************************)
arrive(toPlanet, artifactsOnPlanet, arrival) ==
    IF wrongDestination(toPlanet, arrival)
    THEN [threw |-> TRUE, planet |-> toPlanet, previous |-> toPlanet, current |-> toPlanet]
    ELSE
    LET p0 == updatePlanetToTime(toPlanet, artifactsOnPlanet, arrival.arrivalTime)
        prevPlanet == p0
        p4 == transferArtifact(
                  applySilver(clampSilverBank(applyEnergy(p0, prevPlanet, arrival)), arrival),
                  arrival)
    IN  IF absorbsNothing(p0)
        THEN [threw |-> FALSE, planet |-> p0, previous |-> p0, current |-> p0]
        ELSE [threw |-> FALSE, planet |-> p4, previous |-> prevPlanet, current |-> p4]

(***************************************************************************)
(* Entities.  A pending slot holds an action id (Undefined when empty), a  *)
(* list-valued slot a sequence of action ids, a flag a boolean.            *)
(***************************************************************************)
LocationIds == {1, 2}
ArtifactIds == {1, 2}
Players == {EMPTY_ADDRESS, ME, RIVAL}

SingletonSlots == {"unconfirmedReveal", "unconfirmedFindArtifact",
                   "unconfirmedDepositArtifact", "unconfirmedWithdrawArtifact",
                   "unconfirmedActivateArtifact", "unconfirmedDeactivateArtifact",
                   "unconfirmedWithdrawSilver", "unconfirmedProspectPlanet"}
ListSlots == {"unconfirmedDepartures", "unconfirmedUpgrades",
              "unconfirmedBuyHats", "unconfirmedPlanetTransfers"}
FlagSlots == {"unconfirmedClearEmoji", "unconfirmedAddEmoji"}

ArtifactSlots == {"unconfirmedDepositArtifact", "unconfirmedWithdrawArtifact",
                  "unconfirmedActivateArtifact", "unconfirmedDeactivateArtifact",
                  "unconfirmedMove"}

(* SpaceType *)
NEBULA == 0
SPACE == 1
DEEP_SPACE == 2
DEAD_SPACE == 3

(* a WorldLocation: the id (hash), the coordinates and the noise samples *)
WorldLocation(hash, coords, perlin, biomebase) ==
    [hash |-> hash, coords |-> coords, perlin |-> perlin, biomebase |-> biomebase]

(* the location of a planet that is not locatable *)
NoLocation == WorldLocation(0, 0, 0, 0)

isLocatable(planet) == planet.location # NoLocation

(* a planet as the contract hands it over: no pending slot is set, no      *)
(* location attached                                                       *)
NewPlanet(locationId, owner, planetType, energy, silver, defense, lastUpdated, destroyed) ==
    [locationId |-> locationId, owner |-> owner, planetType |-> planetType,
     energy |-> energy, energyCap |-> 100 * CONTRACT_PRECISION,
     energyGrowth |-> 10 * CONTRACT_PRECISION,
     silver |-> silver, silverCap |-> 100, silverGrowth |-> 10,
     range |-> 100, speed |-> 100, defense |-> defense,
     lastUpdated |-> lastUpdated, destroyed |-> destroyed,
     heldArtifactIds |-> <<>>, localPhotoidUpgrade |-> Undefined,
     planetLevel |-> 1, spaceType |-> NEBULA, location |-> NoLocation, biome |-> Undefined,
     unconfirmedReveal |-> Undefined, unconfirmedFindArtifact |-> Undefined,
     unconfirmedDepositArtifact |-> Undefined, unconfirmedWithdrawArtifact |-> Undefined,
     unconfirmedActivateArtifact |-> Undefined, unconfirmedDeactivateArtifact |-> Undefined,
     unconfirmedWithdrawSilver |-> Undefined, unconfirmedProspectPlanet |-> Undefined,
     unconfirmedDepartures |-> <<>>, unconfirmedUpgrades |-> <<>>,
     unconfirmedBuyHats |-> <<>>, unconfirmedPlanetTransfers |-> <<>>,
     unconfirmedClearEmoji |-> FALSE, unconfirmedAddEmoji |-> FALSE,
     isInContract |-> TRUE]

NewArtifact(id, artifactType, onPlanetId, lastActivated) ==
    [id |-> id, artifactType |-> artifactType, onPlanetId |-> onPlanetId,
     currentOwner |-> ME, wormholeTo |-> Undefined,
     lastActivated |-> lastActivated, lastDeactivated |-> 0,
     timeDelayedUpgrade |-> [energyCapMultiplier |-> 100, energyGroMultiplier |-> 100,
                             rangeMultiplier |-> 200, speedMultiplier |-> 500,
                             defMultiplier |-> 50],
     unconfirmedDepositArtifact |-> Undefined, unconfirmedWithdrawArtifact |-> Undefined,
     unconfirmedActivateArtifact |-> Undefined, unconfirmedDeactivateArtifact |-> Undefined,
     unconfirmedMove |-> Undefined]

NewArrival(eventId, toPlanet, arrivalTime, player, energyArriving, silverMoved, artifactId) ==
    [eventId |-> eventId, toPlanet |-> toPlanet, arrivalTime |-> arrivalTime,
     player |-> player, energyArriving |-> energyArriving,
     silverMoved |-> silverMoved, artifactId |-> artifactId]

NoTxs == [unconfirmedReveal |-> Undefined, unconfirmedMoves |-> {},
          unconfirmedUpgrades |-> {}, unconfirmedBuyHats |-> {},
          unconfirmedPlanetTransfers |-> {}, unconfirmedWormholeActivations |-> <<>>]

NoDiff == [set |-> FALSE]
NoOp == [op |-> "none"]

(* the action ids of the intents of the model *)
ActionIds == 1..12
NoIntentLog == [a \in ActionIds |-> [on |-> 0, off |-> 0]]

(***************************************************************************)
(* The procedural generator.  The ruleset constants (contractConstants)    *)
(* are given once at construction; tables are indexed by level + 1.        *)
(***************************************************************************)
MIN_PLANET_LEVEL == 0
MAX_PLANET_LEVEL == 9
MAX_NATURAL_PLANET_LEVEL == 7
PERLIN_THRESHOLD_1 == 14
PERLIN_THRESHOLD_2 == 15
PERLIN_THRESHOLD_3 == 19
BIOME_THRESHOLD_1 == 15
BIOME_THRESHOLD_2 == 17
TIME_FACTOR_HUNDREDTHS == 100
CORRUPTED == 10

planetLevelThresholds ==
    <<16777216, 4194292, 1048561, 262128, 65520, 16368, 4080, 1008, 240, 48>>
defaultPopulationCap == [i \in 1..10 |-> 100 * i]
defaultPopulationGrowth == [i \in 1..10 |-> 4 * i]
defaultRange == [i \in 1..10 |-> 80 * i]
defaultSpeed == [i \in 1..10 |-> 80]
defaultDefense == [i \in 1..10 |-> 400]
defaultSilverCap == [i \in 1..10 |-> 80 * (i - 1)]
defaultSilverGrowth == [i \in 1..10 |-> 8 * (i - 1)]
defaultBarbarianPercentage == <<0, 1, 2, 3, 4, 5, 7, 10, 20, 25>>

PlanetTypes == <<"PLANET", "SILVER_MINE", "RUINS", "TRADING_POST", "SILVER_BANK">>

(* PLANET_TYPE_WEIGHTS[spaceType][planetLevel] *)
PLANET_TYPE_WEIGHTS(spaceType, planetLevel) ==
    IF planetLevel = 0 THEN <<1, 0, 0, 0, 0>>
    ELSE CASE spaceType = NEBULA -> <<13, 2, 0, 1, 0>>
           [] spaceType = SPACE -> <<12, 2, 1, 1, 0>>
           [] spaceType = DEEP_SPACE -> <<10, 2, 1, 1, 2>>
           [] spaceType = DEAD_SPACE -> <<9, 2, 1, 1, 3>>

(* getBytesFromHex(hex, 4, 7) and getBytesFromHex(hex, 8, 9) of the ids of *)
(* the model                                                               *)
getBytesFromHex(hex, from, to) ==
    IF from = 4 THEN (IF hex = 1 THEN 300000 ELSE 100)
    ELSE (IF hex = 1 THEN 200 ELSE 10)

(* [energyCapBonus, energyGroBonus, rangeBonus, speedBonus, defBonus] *)
bonusFromHex(hex) ==
    IF hex = 1 THEN <<FALSE, FALSE, FALSE, FALSE, FALSE>>
    ELSE <<TRUE, FALSE, FALSE, FALSE, TRUE>>

spaceTypeFromPerlin(perlin) ==
    IF perlin < PERLIN_THRESHOLD_1 THEN NEBULA
    ELSE IF perlin < PERLIN_THRESHOLD_2 THEN SPACE
    ELSE IF perlin < PERLIN_THRESHOLD_3 THEN DEEP_SPACE
    ELSE DEAD_SPACE

(* for (type = MAX_PLANET_LEVEL; type >= MIN_PLANET_LEVEL; type--) ... break *)
RECURSIVE LevelBelowThreshold(_, _, _)
LevelBelowThreshold(type, levelBigInt, thresholds) ==
    IF type < MIN_PLANET_LEVEL THEN MIN_PLANET_LEVEL
    ELSE IF levelBigInt < thresholds[type + 1] THEN type
    ELSE LevelBelowThreshold(type - 1, levelBigInt, thresholds)

(* the clamp of SPACE left out *)
planetLevelOf_NoSpaceClamp(levelBigInt, spaceType, thresholds) ==
    LET ret0 == LevelBelowThreshold(MAX_PLANET_LEVEL, levelBigInt, thresholds)
        ret1 == IF spaceType = NEBULA /\ ret0 > 4 THEN 4 ELSE ret0
    IN  IF ret1 > MAX_NATURAL_PLANET_LEVEL THEN MAX_NATURAL_PLANET_LEVEL ELSE ret1

(* the body of planetLevelFromHexPerlin, given the integer of the hash, the *)
(* space type of the noise sample and the thresholds of the ruleset         *)
planetLevelOf(levelBigInt, spaceType, thresholds) ==
    LET ret0 == LevelBelowThreshold(MAX_PLANET_LEVEL, levelBigInt, thresholds)
        ret1 == IF spaceType = NEBULA /\ ret0 > 4 THEN 4 ELSE ret0
        ret2 == IF spaceType = SPACE /\ ret1 > 5 THEN 5 ELSE ret1
    IN  IF ret2 > MAX_NATURAL_PLANET_LEVEL THEN MAX_NATURAL_PLANET_LEVEL ELSE ret2

planetLevelFromHexPerlin(hex, perlin) ==
    planetLevelOf(getBytesFromHex(hex, 4, 7), spaceTypeFromPerlin(perlin),
                  planetLevelThresholds)

RECURSIVE SumUpTo(_, _)
SumUpTo(weights, i) == IF i = 0 THEN 0 ELSE weights[i] + SumUpTo(weights, i - 1)

(* thresholds[i - 1] of planetTypeFromHexPerlin *)
TypeThreshold(weights, i) ==
    LET weightSum == SumUpTo(weights, Len(weights))
    IN  ((weightSum - SumUpTo(weights, i)) * 256) \div weightSum

(* the last bucket that is hit instead of the first *)
planetTypeOf_LastHit(weights, typeByte) ==
    LET hits == { i \in 1..Len(weights) : typeByte >= TypeThreshold(weights, i) }
    IN  IF hits = {} THEN "PLANET"
        ELSE PlanetTypes[CHOOSE i \in hits : \A j \in hits : i >= j]

(* the body of planetTypeFromHexPerlin, given the weights of the ruleset    *)
(* and the byte of the hash: the first i with typeByte >= thresholds[i],    *)
(* PlanetType.PLANET after the loop                                         *)
planetTypeOf(weights, typeByte) ==
    LET hits == { i \in 1..Len(weights) : typeByte >= TypeThreshold(weights, i) }
    IN  IF hits = {} THEN "PLANET"
        ELSE PlanetTypes[CHOOSE i \in hits : \A j \in hits : i <= j]

planetTypeFromHexPerlin(hex, perlin) ==
    planetTypeOf(PLANET_TYPE_WEIGHTS(spaceTypeFromPerlin(perlin),
                                     planetLevelFromHexPerlin(hex, perlin)),
                 getBytesFromHex(hex, 8, 9))

getBiome(loc) ==
    LET spaceType == spaceTypeFromPerlin(loc.perlin)
    IN  IF spaceType = DEAD_SPACE THEN CORRUPTED
        ELSE 3 * spaceType + ( IF loc.biomebase < BIOME_THRESHOLD_1 THEN 1
                               ELSE IF loc.biomebase < BIOME_THRESHOLD_2 THEN 2
                               ELSE 3 )

(* x * num / den for the factors 2, 1.5, 1.25, 0.5, 0.25 of the generator *)
Scale(x, num, den) == (x * num) \div den

(* the percentage of the ruleset taken as tenths *)
piratesOf_Tenths(energyCap, planetLevel, spaceType) ==
    Scale((energyCap * defaultBarbarianPercentage[planetLevel + 1]) \div 10,
          CASE spaceType = DEAD_SPACE -> 20
            [] spaceType = DEEP_SPACE -> 10
            [] spaceType = SPACE -> 4
            [] OTHER -> 1, 1)

(* let pirates = (energyCap * defaultBarbarianPercentage[planetLevel]) / 100, *)
(* times 20 in DEAD_SPACE, 10 in DEEP_SPACE, 4 in SPACE                       *)
piratesOf(energyCap, planetLevel, spaceType) ==
    Scale((energyCap * defaultBarbarianPercentage[planetLevel + 1]) \div 100,
          CASE spaceType = DEAD_SPACE -> 20
            [] spaceType = DEEP_SPACE -> 10
            [] spaceType = SPACE -> 4
            [] OTHER -> 1, 1)

(* the body of defaultPlanetFromLocation, given the level, type, space type *)
(* and bonus it derives from the location                                   *)
defaultPlanetOf(location, time, planetLevel, planetType, spaceType, bonus) ==
    LET hex == location.hash
        \* the space type factor, in quarters
        q == CASE spaceType = DEAD_SPACE -> 8
               [] spaceType = DEEP_SPACE -> 6
               [] spaceType = SPACE -> 5
               [] OTHER -> 4
        energyCap == Scale(Scale(defaultPopulationCap[planetLevel + 1] * CONTRACT_PRECISION
                                   * (IF bonus[1] THEN 2 ELSE 1), q, 4),
                           IF planetType = "SILVER_BANK" THEN 5 ELSE 1, 1)
        energyGro == IF planetType = "SILVER_BANK" THEN 0
                     ELSE Scale(Scale(defaultPopulationGrowth[planetLevel + 1]
                                        * CONTRACT_PRECISION * (IF bonus[2] THEN 2 ELSE 1), q, 4),
                                TIME_FACTOR_HUNDREDTHS, 100)
        range == Scale(defaultRange[planetLevel + 1] * (IF bonus[3] THEN 2 ELSE 1), q, 4)
        speed == Scale(Scale(Scale(defaultSpeed[planetLevel + 1] * (IF bonus[4] THEN 2 ELSE 1),
                                   q, 4),
                             1, IF planetType = "SILVER_BANK" THEN 2 ELSE 1),
                       TIME_FACTOR_HUNDREDTHS, 100)
        defense0 == defaultDefense[planetLevel + 1] * (IF bonus[5] THEN 2 ELSE 1)
        defense1 == CASE spaceType = DEAD_SPACE -> (defense0 * 3) \div 20
                      [] spaceType = DEEP_SPACE -> Scale(defense0, 1, 4)
                      [] spaceType = SPACE -> Scale(defense0, 1, 2)
                      [] OTHER -> defense0
        defense == IF planetType \in {"SILVER_MINE", "TRADING_POST"}
                   THEN Scale(defense1, 1, 2) ELSE defense1
        silCap == Scale(Scale(defaultSilverCap[planetLevel + 1], q, 4),
                        CASE planetType = "SILVER_MINE" -> 2
                          [] planetType = "SILVER_BANK" -> 10
                          [] planetType = "TRADING_POST" -> 2
                          [] OTHER -> 1, 1)
        silGro == IF planetType = "SILVER_MINE"
                  THEN Scale(Scale(defaultSilverGrowth[planetLevel + 1], q, 4),
                             TIME_FACTOR_HUNDREDTHS, 100)
                  ELSE 0
        pirates == piratesOf(energyCap, planetLevel, spaceType)
        silver == IF planetType = "SILVER_MINE" THEN silCap \div 2 ELSE 0
    IN  [NewPlanet(hex, EMPTY_ADDRESS, planetType, pirates, silver, defense, time, FALSE)
           EXCEPT !.energyCap = energyCap, !.energyGrowth = energyGro,
                  !.silverCap = silCap, !.silverGrowth = silGro,
                  !.range = range, !.speed = speed,
                  !.planetLevel = planetLevel, !.spaceType = spaceType,
                  !.location = location, !.biome = getBiome(location)]

(* the barbarians of the default planet growing with the clock *)
defaultPlanetFromLocation_Grown(location, time, touched) ==
    [defaultPlanetOf(location, time,
                     planetLevelFromHexPerlin(location.hash, location.perlin),
                     planetTypeFromHexPerlin(location.hash, location.perlin),
                     spaceTypeFromPerlin(location.perlin),
                     bonusFromHex(location.hash))
       EXCEPT !.isInContract = location.hash \in touched,
              !.energy = @ + time * CONTRACT_PRECISION]

(* defaultPlanetFromLocation(location), at the time of the call (Date.now()) *)
(* and with the touched ids of the store (this.touchedPlanetIds)             *)
defaultPlanetFromLocation(location, time, touched) ==
    [defaultPlanetOf(location, time,
                     planetLevelFromHexPerlin(location.hash, location.perlin),
                     planetTypeFromHexPerlin(location.hash, location.perlin),
                     spaceTypeFromPerlin(location.perlin),
                     bonusFromHex(location.hash))
       EXCEPT !.isInContract = location.hash \in touched]

(***************************************************************************)
(* The resource model and the arrival resolver on one territory:           *)
(* any sequence of updatePlanetToTime and arrive calls, at most MaxOps.    *)
(***************************************************************************)
PlanetInputs ==
    { p \in { NewPlanet(1, o, ty, e * CONTRACT_PRECISION, s, d, 1, ds) :
                 o \in Players, ty \in {"PLANET", "SILVER_BANK"}, e \in {0, 10, 50},
                 s \in {0, 80}, d \in {100}, ds \in BOOLEAN } :
        p.destroyed => hasOwner(p) }
        \cup
    { NewPlanet(1, o, "PLANET", 50 * CONTRACT_PRECISION, 0, d, 1, FALSE) :
        o \in Players, d \in {50, 200} }
        \cup
    { [NewPlanet(1, EMPTY_ADDRESS, "PLANET", 50 * CONTRACT_PRECISION, 40, 100, 1, FALSE)
         EXCEPT !.silverGrowth = 5, !.energyGrowth = 20 * CONTRACT_PRECISION] }

ArrivalInputs ==
    { NewArrival(1, to, t, pl, e, c[1], c[2]) :
        to \in {1}, t \in {0, 3}, pl \in {ME, RIVAL}, e \in {0, 40, 200},
        c \in {<<0, Undefined>>, <<30, 1>>} }
        \cup
    { NewArrival(1, 2, 2, RIVAL, 40, 0, Undefined) }

ArtifactInputs == { [a \in {} |-> NewArtifact(a, "PhotoidCannon", 1, 1)],
                    [a \in {1} |-> NewArtifact(a, "PhotoidCannon", 1, 1)] }

(* the planetArtifacts argument of the calls *)
ArtifactsArgument == IF 1 \in DOMAIN artifacts THEN <<artifacts[1]>> ELSE <<>>

(* the rulesets of the rounds: destruction on conquest off, or at twice the *)
(* energy of the territory                                                 *)
Rulesets == { [DESTROY_THRESHOLD |-> 0], [DESTROY_THRESHOLD |-> 2] }

InitPlanet ==
    /\ now = 0
    /\ \E p \in PlanetInputs : heap = <<p>>
    /\ planets = [l \in LocationIds |-> NoRef]
    /\ myPlanets = [l \in LocationIds |-> NoRef]
    /\ artifacts \in ArtifactInputs
    /\ arrivals = <<>>
    /\ planetArrivalIds = <<>>
    /\ timers = {}
    /\ txs = NoTxs
    /\ emitted = <<>>
    /\ diff = NoDiff
    /\ lastOp = NoOp
    /\ appliedCount = <<>>
    /\ ingestCount = <<>>
    /\ cancelled = {}
    /\ opCount = 0
    /\ planetLocationMap = <<>>
    /\ coordsToLocation = <<>>
    /\ wormholes = <<>>
    /\ intentLog = NoIntentLog
    /\ contractConstants \in Rulesets
    /\ touchedPlanetIds = { l \in LocationIds : planets[l] # NoRef }

UNCHANGED_store == UNCHANGED <<now, planets, myPlanets, artifacts, arrivals, planetArrivalIds,
                               timers, txs, appliedCount, ingestCount, cancelled,
                               planetLocationMap, coordsToLocation, wormholes, intentLog,
                   contractConstants, touchedPlanetIds>>

(* has an arrive of this run set the destroyed flag of the territory? *)
destroyedByArrive == lastOp.op # "none" /\ lastOp.destroyedByArrive

(* updatePlanetToTime(planet, planetArtifacts, atTimeMillis, constants, setPlanet) *)
CallUpdatePlanetToTime(atTime) ==
    /\ opCount < MaxOps
    /\ heap' = <<updatePlanetToTime(heap[1], ArtifactsArgument, atTime)>>
    /\ emitted' = IF updateApplies(heap[1], atTime) THEN <<heap[1].locationId>> ELSE <<>>
    /\ diff' = NoDiff
    /\ lastOp' = [op |-> "updatePlanetToTime", atTime |-> atTime, pre |-> heap[1],
                  destroyedByArrive |-> destroyedByArrive]
    /\ opCount' = opCount + 1
    /\ UNCHANGED_store

(* arrive(toPlanet, artifactsOnPlanet, arrival, constants) *)
CallArrive(arrival) ==
    /\ opCount < MaxOps
    /\ LET r == arrive(heap[1], ArtifactsArgument, arrival)
       IN  /\ heap' = <<r.planet>>
           /\ diff' = IF r.threw THEN [set |-> FALSE, threw |-> TRUE]
                      ELSE [set |-> TRUE, previous |-> r.previous, current |-> r.current]
    /\ emitted' = <<>>
    /\ lastOp' = [op |-> "arrive", arrival |-> arrival, pre |-> heap[1],
                  destroyedByArrive |-> \/ destroyedByArrive
                                        \/ ( ~heap[1].destroyed
                                             /\ arrive(heap[1], ArtifactsArgument,
                                                       arrival).planet.destroyed )]
    /\ opCount' = opCount + 1
    /\ UNCHANGED_store

NextPlanet ==
    \/ \E t \in 0..MaxTime : CallUpdatePlanetToTime(t)
    \/ \E a \in ArrivalInputs : CallArrive(a)

SpecPlanet == InitPlanet /\ [][NextPlanet]_vars

(***************************************************************************)
(* The entity store (class GameObjects).                                   *)
(***************************************************************************)
VoyageIds == {1, 2, 3}

(* the arrivals the contract knows *)
Voyage(eventId) ==
    CASE eventId = 1 -> NewArrival(1, 1, 2, RIVAL, 40, 0, Undefined)
      [] eventId = 2 -> NewArrival(2, 1, 3, ME, 200, 30, 1)
      [] eventId = 3 -> NewArrival(3, 2, 2, RIVAL, 200, 0, Undefined)

(* the arrival lists the contract can return for a territory *)
ArrivalLists(locationId) ==
    IF locationId = 1 THEN { <<>>, <<Voyage(1)>>, <<Voyage(2), Voyage(1)>> }
    ELSE { <<Voyage(3)>> }

(* the planets the contract can return for a territory *)
ContractPlanets(locationId, time) ==
    IF locationId = 1
    THEN { NewPlanet(1, ME, "PLANET", 50 * CONTRACT_PRECISION, 80, 100, 0, FALSE),
           NewPlanet(1, RIVAL, "PLANET", 10 * CONTRACT_PRECISION, 80, 100, time, FALSE) }
    ELSE { NewPlanet(2, ME, "SILVER_BANK", 50 * CONTRACT_PRECISION, 0, 100, 0, FALSE) }

Refs == DOMAIN heap

(* a reference no live object uses *)
NewRef(h) == CHOOSE r \in 1..(Cardinality(DOMAIN h) + 1) : r \notin DOMAIN h

(* objects nobody can reach any more are dropped *)
Collect(h, pl, tm) ==
    LET live == { pl[l] : l \in LocationIds } \cup { t.planet : t \in tm }
    IN  [r \in DOMAIN h \cap live |-> h[r]]

RECURSIVE SeqToSet(_)
SeqToSet(s) == IF s = <<>> THEN {} ELSE {Head(s)} \cup SeqToSet(Tail(s))

(* the stored planet of an id *)
Stored(l) == heap[planets[l]]

(* the wormhole part of setArtifact(artifact): this.wormholes as it leaves it *)
setWormhole(wh, artifact) ==
    IF artifact.artifactType = "Wormhole" /\ artifact.onPlanetId # Undefined
    THEN IF artifact.wormholeTo # Undefined /\ isActivated(artifact)
         THEN (artifact.id :> [from |-> artifact.onPlanetId, to |-> artifact.wormholeTo]) @@ wh
         ELSE [id \in DOMAIN wh \ {artifact.id} |-> wh[id]]
    ELSE wh

(* getPlanetArtifacts(planetId), given the stored planet *)
getPlanetArtifacts(planet, arts) ==
    LET ids == SelectSeq(planet.heldArtifactIds, LAMBDA id : id \in DOMAIN arts)
    IN  [i \in 1..Len(ids) |-> arts[ids[i]]]

(* arrivals.sort((a, b) => a.arrivalTime - b.arrivalTime): stable insertion *)
RECURSIVE InsertByArrivalTime(_, _)
InsertByArrivalTime(sorted, a) ==
    IF sorted = <<>> THEN <<a>>
    ELSE IF Head(sorted).arrivalTime <= a.arrivalTime
         THEN <<Head(sorted)>> \o InsertByArrivalTime(Tail(sorted), a)
         ELSE <<a>> \o sorted

(* the sort dropped *)
SortByArrivalTime_Unsorted(list) == list

RECURSIVE SortByArrivalTime(_)
SortByArrivalTime(list) ==
    IF list = <<>> THEN <<>>
    ELSE InsertByArrivalTime(SortByArrivalTime(SubSeq(list, 1, Len(list) - 1)),
                             list[Len(list)])

(* an arrival due this very second counted as past-due *)
isPastDue_Inclusive(arrival, time) == time - arrival.arrivalTime >= 0

(* nowInSeconds - arrival.arrivalTime > 0 *)
isPastDue(arrival, time) == time - arrival.arrivalTime > 0

(* a past-due arrival is run at once and given a timer as well *)
RECURSIVE processSorted_AlsoSchedules(_, _, _, _)
processSorted_AlsoSchedules(planet, arts, list, time) ==
    IF list = <<>> THEN [planet |-> planet, applied |-> <<>>, awts |-> <<>>]
    ELSE LET arrival == Head(list)
         IN  IF time - arrival.arrivalTime > 0
             THEN LET r == arrive(planet, getPlanetArtifacts(planet, arts), arrival)
                      rest == processSorted_AlsoSchedules(r.planet, arts, Tail(list), time)
                  IN  [rest EXCEPT !.applied = <<arrival.eventId>> \o rest.applied,
                                   !.awts = <<arrival>> \o rest.awts]
             ELSE LET rest == processSorted_AlsoSchedules(planet, arts, Tail(list), time)
                  IN  [rest EXCEPT !.awts = <<arrival>> \o rest.awts]

(***************************************************************************)
(* processArrivalsForPlanet, on the sorted list: planet is the stored      *)
(* object as the past-due arrivals leave it, applied the arrivals run at   *)
(* once, awts the arrivals given a timer.  An arrive that throws is caught.*)
(***************************************************************************)
RECURSIVE processSorted(_, _, _, _)
processSorted(planet, arts, list, time) ==
    IF list = <<>> THEN [planet |-> planet, applied |-> <<>>, awts |-> <<>>]
    ELSE LET arrival == Head(list)
         IN  IF isPastDue(arrival, time)
             THEN LET r == arrive(planet, getPlanetArtifacts(planet, arts), arrival)
                      rest == processSorted(r.planet, arts, Tail(list), time)
                  IN  [rest EXCEPT !.applied = <<arrival.eventId>> \o rest.applied]
             ELSE LET rest == processSorted(planet, arts, Tail(list), time)
                  IN  [rest EXCEPT !.awts = <<arrival>> \o rest.awts]

processArrivalsForPlanet(planet, arts, list, time) ==
    processSorted(planet, arts, SortByArrivalTime(list), time)

(* clearTimeout dropped *)
clearedTimers_None(arr, pai, locationId) == {}

(* the timers clearOldArrivals clears: those of the ids listed for the     *)
(* planet that this.arrivals still knows                                   *)
clearedTimers(arr, pai, locationId) ==
    IF locationId \in DOMAIN pai
    THEN { arr[id].timer : id \in SeqToSet(pai[locationId]) \cap DOMAIN arr }
    ELSE {}

(* this.arrivals.delete(arrivalId) dropped *)
clearOldArrivals_KeepsEntries(arr, pai, locationId) == arr

(* this.arrivals after clearOldArrivals *)
clearOldArrivals(arr, pai, locationId) ==
    IF locationId \in DOMAIN pai
    THEN [id \in DOMAIN arr \ SeqToSet(pai[locationId]) |-> arr[id]]
    ELSE arr

(* setObjectSyncState on myPlanets *)
syncMyPlanets(my, planet, ref) ==
    [my EXCEPT ![planet.locationId] = IF planet.owner = ME THEN ref ELSE NoRef]

(* the handle setTimeout returns: one per scheduling of an arrival *)
TimerHandle(eventId, count) == <<eventId, count[eventId]>>

(* the fields replacePlanetFromContractData copies from the local planet *)
CopiedSlots == {"unconfirmedReveal", "unconfirmedDepartures", "unconfirmedUpgrades",
                "unconfirmedBuyHats", "unconfirmedPlanetTransfers",
                "unconfirmedFindArtifact", "unconfirmedDepositArtifact",
                "unconfirmedWithdrawArtifact", "unconfirmedActivateArtifact",
                "unconfirmedDeactivateArtifact", "unconfirmedWithdrawSilver",
                "unconfirmedProspectPlanet", "heldArtifactIds"}

carryOver(planet, localPlanet) ==
    [f \in DOMAIN planet |-> IF f \in CopiedSlots THEN localPlanet[f] ELSE planet[f]]

Bump(count, ids) == [e \in VoyageIds |-> count[e] + Cardinality({i \in DOMAIN ids : ids[i] = e})]

EventIds(list) == [i \in 1..Len(list) |-> list[i].eventId]

(***************************************************************************)
(* new GameObjects(...): one touched planet with its unprocessed arrivals, *)
(* no chunks, no revealed or claimed locations, no artifacts.              *)
(***************************************************************************)
Init ==
    /\ now \in {0, 3}
    /\ \E planet \in ContractPlanets(1, 0), list \in ArrivalLists(1) :
         LET r == processArrivalsForPlanet(planet, <<>>, list, now)
             count == Bump([e \in VoyageIds |-> 0], EventIds(list))
         IN  /\ heap = <<r.planet>>
             /\ planets = [l \in LocationIds |-> IF l = 1 THEN 1 ELSE NoRef]
             /\ myPlanets = syncMyPlanets([l \in LocationIds |-> NoRef], r.planet, 1)
             /\ arrivals = [id \in SeqToSet(EventIds(r.awts)) |->
                               [arrivalData |-> Voyage(id), timer |-> TimerHandle(id, count)]]
             /\ planetArrivalIds = [l \in {1} |-> EventIds(r.awts)]
             /\ timers = { [handle |-> TimerHandle(a, count), arrival |-> Voyage(a), planet |-> 1] :
                             a \in SeqToSet(EventIds(r.awts)) }
             /\ ingestCount = count
             /\ appliedCount = Bump([e \in VoyageIds |-> 0], r.applied)
             /\ lastOp = [op |-> "constructor", planet |-> planet,
                          updatedArrivals |-> EventIds(list), applied |-> r.applied,
                          \* setPlanet(planet) follows processArrivalsForPlanet
                          publishedAfter |-> <<planet.locationId>>]
    /\ artifacts = <<>>
    /\ txs = NoTxs
    /\ emitted = <<1>>
    /\ diff = NoDiff
    /\ cancelled = {}
    /\ opCount = 0
    /\ planetLocationMap = <<>>
    /\ coordsToLocation = <<>>
    /\ wormholes = <<>>
    /\ intentLog = NoIntentLog
    /\ contractConstants = [DESTROY_THRESHOLD |-> 2]
    /\ touchedPlanetIds = { l \in LocationIds : planets[l] # NoRef }

(* the clock; a timer that is due runs before the clock moves on *)
Tick ==
    /\ now < MaxTime
    /\ \A t \in timers : t.arrival.arrivalTime > now
    /\ now' = now + 1
    /\ emitted' = <<>>
    /\ lastOp' = [op |-> "tick"]
    /\ UNCHANGED <<heap, planets, myPlanets, artifacts, arrivals, planetArrivalIds, timers,
                   txs, diff, appliedCount, ingestCount, cancelled, opCount,
                   planetLocationMap, coordsToLocation, wormholes, intentLog,
                   contractConstants, touchedPlanetIds>>

(* a planet is stale as soon as any time has passed *)
isStale_AnyDelay(planet, time) == time - planet.lastUpdated > 0

(* updatePlanetIfStale(planet), on the stored planet *)
isStale(planet, time) == time - planet.lastUpdated > 1

(* every lookup is taken to have found its object *)
isDefined_Always(ref) == TRUE

(* if (planet) ... : the test the handlers make on what a lookup returned *)
isDefined(ref) == ref # NoRef

(***************************************************************************)
(* getPlanetWithId(planetId, updateIfStale) as the store leaves it: a      *)
(* stored planet is brought current when it is stale and updateIfStale is  *)
(* set; an id that is not stored but has a known location is given its     *)
(* default planet (getPlanetWithLocation); any other id changes nothing.   *)
(***************************************************************************)
readPlanetWith(planetId, updateIfStale) ==
    IF planets[planetId] # NoRef
    THEN IF updateIfStale /\ isStale(heap[planets[planetId]], now)
         THEN LET ref == planets[planetId]
                  updated == updatePlanetToTime(heap[ref],
                                                getPlanetArtifacts(heap[ref], artifacts), now)
              IN  [heap |-> [heap EXCEPT ![ref] = updated], planets |-> planets,
                   myPlanets |-> syncMyPlanets(myPlanets, updated, ref),
                   emitted |-> <<planetId>>]
         ELSE [heap |-> heap, planets |-> planets, myPlanets |-> myPlanets, emitted |-> <<>>]
    ELSE IF planetId \in DOMAIN planetLocationMap
         THEN LET ref == NewRef(heap)
                  defaultPlanet == defaultPlanetFromLocation(planetLocationMap[planetId], now,
                                                             touchedPlanetIds)
              IN  [heap |-> (ref :> defaultPlanet) @@ heap,
                   planets |-> [planets EXCEPT ![planetId] = ref],
                   myPlanets |-> syncMyPlanets(myPlanets, defaultPlanet, ref),
                   emitted |-> <<planetId>>]
         ELSE [heap |-> heap, planets |-> planets, myPlanets |-> myPlanets, emitted |-> <<>>]

(* getPlanetWithId(id) as the handlers call it *)
readPlanet(planetId) == readPlanetWith(planetId, TRUE)

(* getPlanetWithId(planetId, updateIfStale) *)
getPlanetWithId(planetId, updateIfStale) ==
    /\ LET read == readPlanetWith(planetId, updateIfStale)
       IN  /\ heap' = read.heap
           /\ planets' = read.planets
           /\ myPlanets' = read.myPlanets
           /\ emitted' = read.emitted
    /\ lastOp' = [op |-> "getPlanetWithId", planetId |-> planetId,
                  updateIfStale |-> updateIfStale,
                  \* the planet handed back, NoRef for undefined
                  returned |-> readPlanetWith(planetId, updateIfStale).planets[planetId]]
    /\ diff' = NoDiff
    /\ UNCHANGED <<now, artifacts, arrivals, planetArrivalIds, timers, txs,
                   appliedCount, ingestCount, cancelled, opCount,
                   planetLocationMap, coordsToLocation, wormholes, intentLog,
                   contractConstants, touchedPlanetIds>>

(* a timer that never comes due *)
isDue_Never(arrival, time) == FALSE

(* setTimeout(..., arrival.arrivalTime * 1000 - Date.now()): the callback   *)
(* can run once the clock has reached the arrival time                     *)
isDue(arrival, time) == time >= arrival.arrivalTime

(* the callback of setTimeout in processArrivalsForPlanet *)
applyFutureArrival(t) ==
    /\ t \in timers
    /\ isDue(t.arrival, now)
    /\ \A u \in timers : u.arrival.arrivalTime >= t.arrival.arrivalTime
    /\ \E r \in { arrive(heap[t.planet],
                         getPlanetArtifacts(heap[planets[t.arrival.toPlanet]], artifacts),
                         t.arrival) } :
           /\ heap' = Collect([heap EXCEPT ![t.planet] = r.planet], planets, timers \ {t})
           /\ diff' = [set |-> TRUE, previous |-> r.previous, current |-> r.current]
    /\ timers' = timers \ {t}
    /\ appliedCount' = [appliedCount EXCEPT ![t.arrival.eventId] = @ + 1]
    /\ emitted' = <<>>
    /\ lastOp' = [op |-> "applyFutureArrival", arrival |-> t.arrival, handle |-> t.handle,
                  planet |-> t.planet,
                  \* nothing follows emitArrivalNotifications(arrive(...))
                  publishedAfter |-> <<>>]
    /\ UNCHANGED <<now, planets, myPlanets, artifacts, arrivals, planetArrivalIds, txs,
                   ingestCount, cancelled, opCount,
                   planetLocationMap, coordsToLocation, wormholes, intentLog,
                   contractConstants, touchedPlanetIds>>

(***************************************************************************)
(* replacePlanetFromContractData(planet, updatedArrivals,                  *)
(* updatedArtifactsOnPlanet); withArrivals and withArtifacts tell whether  *)
(* the optional arguments are given.                                       *)
(***************************************************************************)
replacePlanetFromContractData(planet, withArrivals, updatedArrivals, withArtifacts, updatedArtifactsOnPlanet) ==
    /\ opCount < MaxReplaces
    /\ LET locationId == planet.locationId
           hasLocal == planets[locationId] # NoRef
           p1 == IF hasLocal THEN carryOver(planet, heap[planets[locationId]]) ELSE planet
           p1a == IF withArtifacts THEN [p1 EXCEPT !.heldArtifactIds = updatedArtifactsOnPlanet]
                  ELSE p1
           \* make planet Locatable if we know its location
           p2 == IF locationId \in DOMAIN planetLocationMap
                 THEN [p1a EXCEPT !.location = planetLocationMap[locationId],
                                  !.biome = getBiome(planetLocationMap[locationId])]
                 ELSE p1a
           ref == NewRef(heap)
           \* setPlanet(planet)
           planets1 == [planets EXCEPT ![locationId] = ref]
           \* clearOldArrivals(planet)
           cleared == clearedTimers(arrivals, planetArrivalIds, locationId)
           timers1 == { t \in timers : t.handle \notin cleared }
           arrivals1 == clearOldArrivals(arrivals, planetArrivalIds, locationId)
           \* processArrivalsForPlanet(planet.locationId, updatedArrivals)
           r == processArrivalsForPlanet(p2, artifacts, updatedArrivals, now)
           count == Bump(ingestCount, EventIds(updatedArrivals))
           ids == EventIds(r.awts)
           timers2 == timers1 \cup
                      { [handle |-> TimerHandle(id, count), arrival |-> Voyage(id),
                         planet |-> ref] : id \in SeqToSet(ids) }
       IN  /\ planets' = planets1
           /\ myPlanets' = syncMyPlanets(myPlanets, p2, ref)
           /\ IF withArrivals
              THEN /\ heap' = Collect((ref :> r.planet) @@ heap, planets1, timers2)
                   /\ timers' = timers2
                   /\ arrivals' = [id \in DOMAIN arrivals1 \cup SeqToSet(ids) |->
                                     IF id \in SeqToSet(ids)
                                     THEN [arrivalData |-> Voyage(id),
                                           timer |-> TimerHandle(id, count)]
                                     ELSE arrivals1[id]]
                   /\ planetArrivalIds' = (locationId :> ids) @@ planetArrivalIds
                   /\ ingestCount' = count
                   /\ appliedCount' = Bump(appliedCount, r.applied)
                   /\ cancelled' = cancelled \cup
                                   { t.handle : t \in { u \in timers :
                                                          u.arrival.toPlanet = locationId } }
              ELSE /\ heap' = Collect((ref :> p2) @@ heap, planets1, timers)
                   /\ UNCHANGED <<timers, arrivals, planetArrivalIds, ingestCount,
                                  appliedCount, cancelled>>
           /\ emitted' = <<locationId>>
           /\ lastOp' = [op |-> "replacePlanetFromContractData", planet |-> planet,
                         local |-> planets[locationId],
                         withArrivals |-> withArrivals,
                         updatedArrivals |-> EventIds(updatedArrivals),
                         applied |-> IF withArrivals THEN r.applied ELSE <<>>,
                         \* setPlanet(planet) precedes processArrivalsForPlanet;
                         \* updateScore publishes nothing
                         publishedAfter |-> <<>>]
    /\ diff' = NoDiff
    /\ opCount' = opCount + 1
    /\ UNCHANGED <<now, artifacts, txs, planetLocationMap, coordsToLocation, wormholes,
                   intentLog, contractConstants>>
    \* this.touchedPlanetIds.add(planet.locationId)
    /\ touchedPlanetIds' = touchedPlanetIds \cup {planet.locationId}

Next ==
    \/ Tick
    \/ \E t \in timers : applyFutureArrival(t)
    \/ \E l \in LocationIds : \E planet \in ContractPlanets(l, now) :
         \/ \E list \in ArrivalLists(l) :
              replacePlanetFromContractData(planet, TRUE, list, FALSE, <<>>)
         \/ replacePlanetFromContractData(planet, FALSE, <<>>, FALSE, <<>>)
    \/ \E l \in LocationIds : getPlanetWithId(l, TRUE)

Spec == Init /\ [][Next]_vars

(* the clock, the timers and the reconciliations of one territory *)
NextLive ==
    \/ Tick
    \/ \E t \in timers : applyFutureArrival(t)
    \/ \E planet \in ContractPlanets(1, now), list \in ArrivalLists(1) :
         replacePlanetFromContractData(planet, TRUE, list, FALSE, <<>>)
    \/ \E planet \in ContractPlanets(1, now) :
         replacePlanetFromContractData(planet, FALSE, <<>>, FALSE, <<>>)

(* the clock keeps advancing and a timer that is due fires *)
SpecLive ==
    /\ Init /\ [][NextLive]_vars
    /\ WF_vars(Tick)
    /\ WF_vars(\E t \in timers : applyFutureArrival(t))

(***************************************************************************)
(* The optimistic overlay.  A TxIntent is a record of its actionId, its    *)
(* kind (the isUnconfirmed... test it passes), the territory it names      *)
(* (locationId, from or planetId), and the artifact it names, if any.      *)
(***************************************************************************)
NewIntent(actionId, kind, locationId, artifactId, wormholeTo) ==
    [actionId |-> actionId, kind |-> kind, locationId |-> locationId,
     artifactId |-> artifactId, wormholeTo |-> wormholeTo]

ListKinds == {"move", "upgrade", "buyHat", "transfer"}
ArtifactKinds == {"move", "deposit", "withdraw", "activate", "deactivate"}

(* the slot of the planet an intent of a kind is attached to *)
planetSlot(kind) ==
    CASE kind = "reveal" -> "unconfirmedReveal"
      [] kind = "move" -> "unconfirmedDepartures"
      [] kind = "upgrade" -> "unconfirmedUpgrades"
      [] kind = "buyHat" -> "unconfirmedBuyHats"
      [] kind = "transfer" -> "unconfirmedPlanetTransfers"
      [] kind = "prospect" -> "unconfirmedProspectPlanet"
      [] kind = "find" -> "unconfirmedFindArtifact"
      [] kind = "deposit" -> "unconfirmedDepositArtifact"
      [] kind = "withdraw" -> "unconfirmedWithdrawArtifact"
      [] kind = "activate" -> "unconfirmedActivateArtifact"
      [] kind = "deactivate" -> "unconfirmedDeactivateArtifact"
      [] kind = "withdrawSilver" -> "unconfirmedWithdrawSilver"

(* every kind attached to the same slot of the artifact *)
artifactSlot_Shared(kind) == "unconfirmedMove"

(* the slot of the artifact an intent of a kind is attached to *)
artifactSlot(kind) ==
    CASE kind = "move" -> "unconfirmedMove"
      [] kind = "deposit" -> "unconfirmedDepositArtifact"
      [] kind = "withdraw" -> "unconfirmedWithdrawArtifact"
      [] kind = "activate" -> "unconfirmedActivateArtifact"
      [] kind = "deactivate" -> "unconfirmedDeactivateArtifact"

(* the store's own record of a kind, if it keeps one *)
globalRecord(kind) ==
    CASE kind = "move" -> "unconfirmedMoves"
      [] kind = "upgrade" -> "unconfirmedUpgrades"
      [] kind = "buyHat" -> "unconfirmedBuyHats"
      [] kind = "transfer" -> "unconfirmedPlanetTransfers"

(* the first entry is removed, whatever its action id *)
RemoveFirst_Head(list, actionId) == IF list = <<>> THEN <<>> ELSE Tail(list)

(* for (i ...) if (list[i].actionId === actionId) { removeIdx = i; break; } splice *)
RECURSIVE RemoveFirst(_, _)
RemoveFirst(list, actionId) ==
    IF list = <<>> THEN <<>>
    ELSE IF Head(list) = actionId THEN Tail(list)
    ELSE <<Head(list)>> \o RemoveFirst(Tail(list), actionId)

(* the slot is emptied only when it holds the intent that is cleared *)
clearSlot_Matched(held, actionId) == IF held = actionId THEN Undefined ELSE held

(* planet.unconfirmedX = undefined, delete planet.unconfirmedX: the slot is *)
(* emptied whatever intent it holds                                         *)
clearSlot(held, actionId) == Undefined

(* the planet and artifact part of onTxIntent (attach) and of               *)
(* clearUnconfirmedTxIntent: the planet read through getPlanetWithId, its   *)
(* slot set or cleared and the planet committed, the slot of the artifact   *)
(* set or cleared and the artifact committed                                *)
attachOrDetach(tx, attach) ==
    LET read == readPlanet(tx.locationId)
        stored == isDefined(read.planets[tx.locationId])
        ref == read.planets[tx.locationId]
        slot == planetSlot(tx.kind)
        onArtifact == /\ tx.kind \in ArtifactKinds
                      /\ tx.artifactId # Undefined
                      /\ tx.artifactId \in DOMAIN artifacts
    IN  /\ heap' = IF stored
                   THEN [read.heap EXCEPT ![ref][slot] =
                           IF attach
                           THEN IF tx.kind \in ListKinds THEN Append(@, tx.actionId)
                                ELSE tx.actionId
                           ELSE IF tx.kind \in ListKinds THEN RemoveFirst(@, tx.actionId)
                                ELSE clearSlot(@, tx.actionId)]
                   ELSE heap
        /\ planets' = read.planets
        /\ myPlanets' = read.myPlanets
        /\ emitted' = IF stored THEN read.emitted \o <<tx.locationId>> ELSE <<>>
        /\ artifacts' = IF onArtifact
                        THEN [artifacts EXCEPT ![tx.artifactId][artifactSlot(tx.kind)] =
                                                   IF attach THEN tx.actionId
                                                   ELSE clearSlot(@, tx.actionId)]
                        ELSE artifacts
        \* setArtifact(artifact)
        /\ wormholes' = IF onArtifact
                        THEN setWormhole(wormholes, artifacts'[tx.artifactId])
                        ELSE wormholes

onTxIntent(tx) ==
    /\ opCount < MaxOverlayOps
    /\ attachOrDetach(tx, TRUE)
    /\ txs' = CASE tx.kind = "reveal" -> [txs EXCEPT !.unconfirmedReveal = tx.actionId]
                [] tx.kind \in ListKinds ->
                     [txs EXCEPT ![globalRecord(tx.kind)] = @ \cup {tx.actionId}]
                [] tx.kind = "activate" /\ tx.wormholeTo # Undefined ->
                     [txs EXCEPT !.unconfirmedWormholeActivations = Append(@, tx.actionId)]
                [] OTHER -> txs
    /\ lastOp' = [op |-> "onTxIntent", tx |-> tx]
    /\ intentLog' = [intentLog EXCEPT ![tx.actionId].on = @ + 1]
    /\ UNCHANGED <<contractConstants, touchedPlanetIds>>
    /\ opCount' = opCount + 1
    /\ diff' = NoDiff
    /\ UNCHANGED <<now, arrivals, planetArrivalIds, timers,
                   appliedCount, ingestCount, cancelled, planetLocationMap, coordsToLocation>>

clearUnconfirmedTxIntent(tx) ==
    /\ opCount < MaxOverlayOps
    /\ attachOrDetach(tx, FALSE)
    /\ txs' = CASE tx.kind = "reveal" ->
                     IF tx.actionId = txs.unconfirmedReveal
                     THEN [txs EXCEPT !.unconfirmedReveal = Undefined]
                     ELSE txs
                [] tx.kind \in ListKinds ->
                     [txs EXCEPT ![globalRecord(tx.kind)] = @ \ {tx.actionId}]
                [] tx.kind = "activate" ->
                     [txs EXCEPT !.unconfirmedWormholeActivations =
                                     RemoveFirst(@, tx.actionId)]
                [] OTHER -> txs
    /\ lastOp' = [op |-> "clearUnconfirmedTxIntent", tx |-> tx,
                  \* the pending list of the territory when the call is made
                  before |-> IF tx.kind \in ListKinds /\ planets[tx.locationId] # NoRef
                             THEN Stored(tx.locationId)[planetSlot(tx.kind)]
                             ELSE <<>>]
    /\ intentLog' = [intentLog EXCEPT ![tx.actionId].off = @ + 1]
    /\ UNCHANGED <<contractConstants, touchedPlanetIds>>
    /\ opCount' = opCount + 1
    /\ diff' = NoDiff
    /\ UNCHANGED <<now, arrivals, planetArrivalIds, timers,
                   appliedCount, ingestCount, cancelled, planetLocationMap, coordsToLocation>>

(* the update functions callers pass to updatePlanet *)
UpdateFns == {"unconfirmedAddEmoji", "unconfirmedClearEmoji"}

(* updatePlanet(id, updateFn), updateFn setting one flag of the planet *)
updatePlanet(id, updateFn) ==
    /\ opCount < MaxOverlayOps
    /\ LET read == readPlanet(id)
       IN  IF isDefined(read.planets[id])
           THEN /\ heap' = [read.heap EXCEPT ![read.planets[id]][updateFn] = TRUE]
                /\ planets' = read.planets
                /\ myPlanets' = read.myPlanets
                /\ emitted' = read.emitted \o <<id>>
           ELSE /\ UNCHANGED <<heap, planets, myPlanets>>
                /\ emitted' = <<>>
    /\ lastOp' = [op |-> "updatePlanet", id |-> id, updateFn |-> updateFn]
    /\ opCount' = opCount + 1
    /\ diff' = NoDiff
    /\ UNCHANGED <<now, artifacts, arrivals, planetArrivalIds, timers, txs,
                   appliedCount, ingestCount, cancelled,
                   planetLocationMap, coordsToLocation, wormholes, intentLog,
                   contractConstants, touchedPlanetIds>>

(* replaceArtifactFromContractData(artifact) *)
replaceArtifactFromContractData(artifact) ==
    /\ opCount < MaxOverlayOps
    /\ LET hasLocal == artifact.id \in DOMAIN artifacts
           a1 == IF hasLocal
                 THEN [f \in DOMAIN artifact |->
                         IF f \in ArtifactSlots THEN artifacts[artifact.id][f] ELSE artifact[f]]
                 ELSE artifact
       IN  /\ artifacts' = (artifact.id :> a1) @@ artifacts
           \* setArtifact(artifact)
           /\ wormholes' = setWormhole(wormholes, a1)
    /\ emitted' = <<>>
    /\ lastOp' = [op |-> "replaceArtifactFromContractData", artifact |-> artifact]
    /\ opCount' = opCount + 1
    /\ diff' = NoDiff
    /\ UNCHANGED <<now, heap, planets, myPlanets, arrivals, planetArrivalIds, timers, txs,
                   appliedCount, ingestCount, cancelled,
                   planetLocationMap, coordsToLocation, intentLog,
                   contractConstants, touchedPlanetIds>>

(* the intents of the player *)
Intents == { NewIntent(1, "reveal", 1, Undefined, Undefined),
             NewIntent(2, "move", 1, 1, Undefined),
             NewIntent(3, "activate", 1, 1, 2),
             NewIntent(4, "withdrawSilver", 2, Undefined, Undefined) }

(* the artifacts the contract can return *)
ContractArtifacts == { NewArtifact(1, "Wormhole", 1, 0), NewArtifact(1, "Wormhole", 1, 2) }

(* new GameObjects(...): one touched planet, one artifact, no arrivals *)
InitOverlay ==
    /\ now \in {0, 3}
    /\ \E planet \in ContractPlanets(1, 0) :
         /\ heap = <<planet>>
         /\ myPlanets = syncMyPlanets([l \in LocationIds |-> NoRef], planet, 1)
    /\ planets = [l \in LocationIds |-> IF l = 1 THEN 1 ELSE NoRef]
    /\ artifacts = [a \in {1} |-> NewArtifact(1, "Wormhole", 1, 0)]
    /\ arrivals = <<>>
    /\ planetArrivalIds = [l \in {1} |-> <<>>]
    /\ timers = {}
    /\ txs = NoTxs
    /\ emitted = <<1>>
    /\ diff = NoDiff
    /\ lastOp = [op |-> "constructor"]
    /\ ingestCount = [e \in VoyageIds |-> 0]
    /\ appliedCount = [e \in VoyageIds |-> 0]
    /\ cancelled = {}
    /\ opCount = 0
    /\ planetLocationMap = <<>>
    /\ coordsToLocation = <<>>
    /\ wormholes = <<>>
    /\ intentLog = NoIntentLog
    /\ contractConstants = [DESTROY_THRESHOLD |-> 2]
    /\ touchedPlanetIds = { l \in LocationIds : planets[l] # NoRef }

NextOverlay ==
    \/ \E tx \in Intents : onTxIntent(tx)
    \/ \E tx \in Intents : clearUnconfirmedTxIntent(tx)
    \/ \E id \in LocationIds, updateFn \in UpdateFns : updatePlanet(id, updateFn)
    \/ \E artifact \in ContractArtifacts : replaceArtifactFromContractData(artifact)
    \/ \E planet \in ContractPlanets(1, now) :
         replacePlanetFromContractData(planet, FALSE, <<>>, FALSE, <<>>)

SpecOverlay == InitOverlay /\ [][NextOverlay]_vars

(***************************************************************************)
(* Learning locations.                                                     *)
(***************************************************************************)
(* the locations the miner or a reveal can hand over *)
Locations == { WorldLocation(1, 11, 10, 16), WorldLocation(2, 22, 20, 10) }

(* the default planet is never set *)
needsDefault_Never(pl, hash) == FALSE

(* the default planet is set whether or not the id is stored *)
needsDefault_Always(pl, hash) == TRUE

(* if (!this.planets.get(planetLocation.hash)) *)
needsDefault(pl, hash) == pl[hash] = NoRef

(* addPlanetLocation(planetLocation) *)
addPlanetLocation(planetLocation) ==
    /\ opCount < MaxLearns
    /\ LET hash == planetLocation.hash
           \* this.getPlanetWithId(planetLocation.hash, false)
           read == readPlanetWith(hash, FALSE)
           create == needsDefault(read.planets, hash)
           ref == IF create THEN NewRef(read.heap) ELSE read.planets[hash]
           base == IF create THEN defaultPlanetFromLocation(planetLocation, now, touchedPlanetIds)
                   ELSE read.heap[ref]
           planet == [base EXCEPT !.location = planetLocation,
                                  !.biome = getBiome(planetLocation)]
           \* const planet = this.planets.get(planetLocation.hash); if (planet) ...
           planets1 == IF ref # NoRef THEN [read.planets EXCEPT ![hash] = ref]
                       ELSE read.planets
       IN  /\ planetLocationMap' = (hash :> planetLocation) @@ planetLocationMap
           /\ coordsToLocation' = IF planetLocation.coords \in DOMAIN coordsToLocation
                                  THEN coordsToLocation
                                  ELSE (planetLocation.coords :> planetLocation)
                                          @@ coordsToLocation
           /\ planets' = planets1
           /\ heap' = IF ref # NoRef
                      THEN Collect((ref :> planet) @@ read.heap, planets1, timers)
                      ELSE read.heap
           /\ myPlanets' = IF create THEN syncMyPlanets(read.myPlanets, base, ref)
                           ELSE read.myPlanets
           /\ emitted' = read.emitted \o (IF create THEN <<hash>> ELSE <<>>)
           /\ lastOp' = [op |-> "addPlanetLocation", planetLocation |-> planetLocation,
                         \* was this very location learned before?
                         known |-> /\ hash \in DOMAIN planetLocationMap
                                   /\ planetLocationMap[hash] = planetLocation]
    /\ opCount' = opCount + 1
    /\ diff' = NoDiff
    /\ UNCHANGED <<now, artifacts, arrivals, planetArrivalIds, timers, txs,
                   appliedCount, ingestCount, cancelled, wormholes, intentLog,
                   contractConstants, touchedPlanetIds>>

(* new GameObjects(...): no chunks, and no touched planet or one *)
InitLocations ==
    /\ now \in {0, 3}
    /\ \/ /\ heap = <<>>
          /\ planets = [l \in LocationIds |-> NoRef]
          /\ myPlanets = [l \in LocationIds |-> NoRef]
          /\ emitted = <<>>
       \/ \E planet \in ContractPlanets(1, 0) :
            /\ heap = <<planet>>
            /\ planets = [l \in LocationIds |-> IF l = 1 THEN 1 ELSE NoRef]
            /\ myPlanets = syncMyPlanets([l \in LocationIds |-> NoRef], planet, 1)
            /\ emitted = <<1>>
    /\ artifacts = <<>>
    /\ arrivals = <<>>
    /\ planetArrivalIds = <<>>
    /\ timers = {}
    /\ txs = NoTxs
    /\ diff = NoDiff
    /\ lastOp = [op |-> "constructor"]
    /\ ingestCount = [e \in VoyageIds |-> 0]
    /\ appliedCount = [e \in VoyageIds |-> 0]
    /\ cancelled = {}
    /\ opCount = 0
    /\ planetLocationMap = <<>>
    /\ coordsToLocation = <<>>
    /\ wormholes = <<>>
    /\ intentLog = NoIntentLog
    /\ contractConstants = [DESTROY_THRESHOLD |-> 2]
    /\ touchedPlanetIds = { l \in LocationIds : planets[l] # NoRef }

NextLocations ==
    \/ \E planetLocation \in Locations : addPlanetLocation(planetLocation)
    \/ \E l \in LocationIds : \E planet \in ContractPlanets(l, now) :
         replacePlanetFromContractData(planet, FALSE, <<>>, FALSE, <<>>)
    \/ \E tx \in Intents : onTxIntent(tx)
    \/ \E l \in LocationIds : getPlanetWithId(l, TRUE)

SpecLocations == InitLocations /\ [][NextLocations]_vars

(***************************************************************************)
(* The intents of one session: every intent has its own action id, is      *)
(* attached once, and is cleared only after it was attached, possibly      *)
(* twice.                                                                  *)
(***************************************************************************)
IntentPool == Intents \cup
              { NewIntent(5, "move", 1, Undefined, Undefined),
                NewIntent(6, "move", 1, Undefined, Undefined),
                NewIntent(7, "upgrade", 1, Undefined, Undefined),
                NewIntent(8, "buyHat", 1, Undefined, Undefined),
                NewIntent(9, "transfer", 1, Undefined, Undefined) }

NextIntents ==
    \/ \E tx \in IntentPool :
         /\ intentLog[tx.actionId].on = 0
         /\ onTxIntent(tx)
    \/ \E tx \in IntentPool :
         /\ intentLog[tx.actionId].on = 1
         /\ intentLog[tx.actionId].off < 2
         /\ clearUnconfirmedTxIntent(tx)

SpecIntents == InitOverlay /\ [][NextIntents]_vars

(***************************************************************************)
(* Intents of the kinds that have one slot: two reveals and two silver     *)
(* withdrawals on the same territory, two deposits of the same artifact,   *)
(* one intent of every other kind.  An intent is attached to a territory   *)
(* the store holds, once, and cleared after it was attached.               *)
(***************************************************************************)
SingletonKinds == {"reveal", "prospect", "find", "deposit", "withdraw", "activate",
                   "deactivate", "withdrawSilver"}

SingletonIntents ==
    { NewIntent(1, "reveal", 1, Undefined, Undefined),
      NewIntent(2, "reveal", 1, Undefined, Undefined),
      NewIntent(3, "reveal", 2, Undefined, Undefined),
      NewIntent(4, "prospect", 1, Undefined, Undefined),
      NewIntent(5, "find", 1, Undefined, Undefined),
      NewIntent(6, "deposit", 1, 1, Undefined),
      NewIntent(7, "deposit", 2, 1, Undefined),
      NewIntent(8, "withdraw", 1, 1, Undefined),
      NewIntent(9, "activate", 1, 1, Undefined),
      NewIntent(10, "deactivate", 1, 1, Undefined),
      NewIntent(11, "withdrawSilver", 1, Undefined, Undefined),
      NewIntent(12, "withdrawSilver", 1, Undefined, Undefined) }

NextSingletons ==
    \/ \E tx \in SingletonIntents :
         /\ intentLog[tx.actionId].on = 0
         /\ planets[tx.locationId] # NoRef
         /\ onTxIntent(tx)
    \/ \E tx \in SingletonIntents :
         /\ intentLog[tx.actionId].on = 1
         /\ intentLog[tx.actionId].off < 2
         /\ clearUnconfirmedTxIntent(tx)
    \/ \E l \in LocationIds : \E planet \in ContractPlanets(l, now) :
         replacePlanetFromContractData(planet, FALSE, <<>>, FALSE, <<>>)
    \/ \E artifact \in ContractArtifacts : replaceArtifactFromContractData(artifact)

SpecSingletons == InitOverlay /\ [][NextSingletons]_vars

(***************************************************************************)
(* The artifacts as the contract reports them and as intents touch them.   *)
(***************************************************************************)
ArtifactInputs2 ==
    { [NewArtifact(id, ty, on, act) EXCEPT !.wormholeTo = to] :
        id \in {1}, ty \in {"Wormhole", "PhotoidCannon"}, on \in {Undefined, 1},
        act \in {0, 2}, to \in {Undefined, 2} }

ArtifactIntents == { NewIntent(3, "activate", 1, 1, 2),
                     NewIntent(2, "move", 1, 1, Undefined) }

NextArtifacts ==
    \/ \E artifact \in ArtifactInputs2 : replaceArtifactFromContractData(artifact)
    \/ \E tx \in ArtifactIntents : onTxIntent(tx)
    \/ \E tx \in ArtifactIntents : clearUnconfirmedTxIntent(tx)

SpecArtifacts == InitOverlay /\ [][NextArtifacts]_vars

(***************************************************************************)
(* Reads, the periodic pass, and operations on ids the store does not      *)
(* know.                                                                   *)
(***************************************************************************)
(* getPlanetLevel(planetId) *)
getPlanetLevel(planetId) ==
    /\ lastOp' = [op |-> "getPlanetLevel", planetId |-> planetId,
                  returned |-> IF planets[planetId] # NoRef
                               THEN Stored(planetId).planetLevel
                               ELSE Undefined]
    /\ emitted' = <<>>
    /\ diff' = NoDiff
    /\ UNCHANGED <<now, heap, planets, myPlanets, artifacts, arrivals, planetArrivalIds,
                   timers, txs, appliedCount, ingestCount, cancelled, opCount,
                   planetLocationMap, coordsToLocation, wormholes, intentLog,
                   contractConstants, touchedPlanetIds>>

(* getPlanetDetailLevel(planetId) *)
getPlanetDetailLevel(planetId) ==
    /\ lastOp' = [op |-> "getPlanetDetailLevel", planetId |-> planetId,
                  returned |-> IF planets[planetId] # NoRef
                               THEN Stored(planetId).planetLevel
                                      + (IF hasOwner(Stored(planetId)) THEN 1 ELSE 0)
                               ELSE Undefined]
    /\ emitted' = <<>>
    /\ diff' = NoDiff
    /\ UNCHANGED <<now, heap, planets, myPlanets, artifacts, arrivals, planetArrivalIds,
                   timers, txs, appliedCount, ingestCount, cancelled, opCount,
                   planetLocationMap, coordsToLocation, wormholes, intentLog,
                   contractConstants, touchedPlanetIds>>

(* the callback of setInterval in the constructor: every stored planet    *)
(* that has an owner is brought to the current time, in place              *)
refreshOwnedPlanets ==
    /\ heap' = [ref \in DOMAIN heap |->
                  IF (\E l \in LocationIds : planets[l] = ref) /\ hasOwner(heap[ref])
                  THEN updatePlanetToTime(heap[ref],
                                          getPlanetArtifacts(heap[ref], artifacts), now)
                  ELSE heap[ref]]
    /\ emitted' = <<>>
    /\ lastOp' = [op |-> "refreshOwnedPlanets", at |-> now,
                  \* the ids whose planet the pass changed
                  advanced |-> { l \in LocationIds :
                                   /\ planets[l] # NoRef
                                   /\ heap'[planets[l]] # heap[planets[l]] }]
    /\ diff' = NoDiff
    /\ UNCHANGED <<now, planets, myPlanets, artifacts, arrivals, planetArrivalIds,
                   timers, txs, appliedCount, ingestCount, cancelled, opCount,
                   planetLocationMap, coordsToLocation, wormholes, intentLog,
                   contractConstants, touchedPlanetIds>>

(* intents on a planet the store does not know, on an artifact it does not *)
(* know, and on the planet and the artifact it has                         *)
ReadIntents == { NewIntent(1, "reveal", 2, Undefined, Undefined),
                 NewIntent(2, "move", 2, 2, Undefined),
                 NewIntent(3, "activate", 1, 2, 2),
                 NewIntent(4, "move", 1, 1, Undefined) }

NextReads ==
    \/ Tick
    \/ \E l \in LocationIds, updateIfStale \in BOOLEAN : getPlanetWithId(l, updateIfStale)
    \/ \E l \in LocationIds : getPlanetLevel(l)
    \/ \E l \in LocationIds : getPlanetDetailLevel(l)
    \/ refreshOwnedPlanets
    \/ \E id \in LocationIds, updateFn \in UpdateFns :
         opCount < MaxWrites /\ updatePlanet(id, updateFn)
    \/ \E tx \in ReadIntents : opCount < MaxWrites /\ onTxIntent(tx)
    \/ \E tx \in ReadIntents : opCount < MaxWrites /\ clearUnconfirmedTxIntent(tx)
    \/ \E planetLocation \in Locations :
         opCount < MaxWrites /\ addPlanetLocation(planetLocation)

SpecReads == InitOverlay /\ [][NextReads]_vars

(***************************************************************************)
(* Properties of the resource model and the arrival resolver (SpecPlanet). *)
(***************************************************************************)
TheOne == heap[1]

(* which branch of arrive an arrival takes on a planet *)
ArriveCase(planet, planetArtifacts, arrival) ==
    LET p0 == updatePlanetToTime(planet, planetArtifacts, arrival.arrivalTime)
    IN  IF planet.locationId # arrival.toPlanet THEN "threw"
        ELSE IF p0.destroyed THEN "destroyed"
        ELSE IF arrival.player = p0.owner THEN "reinforce"
        ELSE IF p0.energy > EffectiveDamage(arrival.energyArriving, p0.defense) THEN "hit"
        ELSE "conquest"

LastArriveCase == ArriveCase(lastOp.pre, ArtifactsArgument, lastOp.arrival)

(* C5 as claimed: energy <= energyCap after every operation of any sequence *)
(* of updatePlanetToTime and arrive.                                        *)
C5_EnergyNeverAboveCap == TheOne.energy <= TheOne.energyCap

(* C5 amended: energy <= energyCap is preserved by every updatePlanetToTime, *)
(* by every arrive on a SILVER_BANK territory, and by every arrive that is a *)
(* non-conquering attack, raises, or meets a destroyed territory; only a     *)
(* reinforcement or conquest of another territory type can exceed the cap.   *)
C5_EnergyCapPreserved ==
    [][ ( /\ TheOne.energy <= TheOne.energyCap
          /\ \/ lastOp'.op = "updatePlanetToTime"
             \/ TheOne.planetType = "SILVER_BANK"
             \/ /\ lastOp'.op = "arrive"
                /\ ArriveCase(TheOne, ArtifactsArgument, lastOp'.arrival)
                      \in {"hit", "destroyed", "threw"} )
        => TheOne'.energy <= TheOne'.energyCap ]_vars

(* a SILVER_BANK reinforced beyond its cap was clamped to it *)
C5_Witness ==
    /\ lastOp.op = "arrive"
    /\ LastArriveCase = "reinforce"
    /\ lastOp.pre.planetType = "SILVER_BANK"
    /\ lastOp.pre.energy + lastOp.arrival.energyArriving * CONTRACT_PRECISION
          > lastOp.pre.energyCap
    /\ TheOne.energy = TheOne.energyCap

(* C6: with silver within [0, silverCap] at the start and silverMoved >= 0, *)
(* 0 <= silver <= silverCap after every updatePlanetToTime and arrive.      *)
C6_SilverWithinCap == 0 <= TheOne.silver /\ TheOne.silver <= TheOne.silverCap

(* an arrival whose silver would overflow the cap was applied *)
C6_Witness ==
    /\ lastOp.op = "arrive"
    /\ LastArriveCase \in {"hit", "conquest", "reinforce"}
    /\ lastOp.pre.silver + lastOp.arrival.silverMoved > lastOp.pre.silverCap
    /\ TheOne.silver = TheOne.silverCap

(* C7: with energy >= 0, defense > 0 and energyArriving >= 0, energy stays  *)
(* >= 0 after arrive; in particular the post-conquest energy is not         *)
(* negative.                                                                *)
C7_EnergyNonNegative == TheOne.energy >= 0 /\ TheOne.defense > 0

(* a conquest of a defended territory was applied *)
C7_Witness ==
    /\ lastOp.op = "arrive"
    /\ LastArriveCase = "conquest"
    /\ lastOp.pre.energy > 0
    /\ TheOne.owner = lastOp.arrival.player
    /\ TheOne.energy >= 0

(* C8: lastUpdated never decreases; an updatePlanetToTime whose target time *)
(* precedes lastUpdated changes nothing on the territory and commits        *)
(* nothing.                                                                 *)
C8_MonotonicTime ==
    [][ /\ TheOne'.lastUpdated >= TheOne.lastUpdated
        /\ ( lastOp'.op = "updatePlanetToTime" /\ lastOp'.atTime < TheOne.lastUpdated )
             => ( TheOne' = TheOne /\ emitted' = <<>> ) ]_vars

(* an owned, growing territory was asked to go back in time *)
C8_Witness ==
    /\ lastOp.op = "updatePlanetToTime"
    /\ lastOp.atTime < lastOp.pre.lastUpdated
    /\ hasOwner(lastOp.pre) /\ lastOp.pre.energy > 0
    /\ lastOp.pre.energy < lastOp.pre.energyCap
    /\ TheOne = lastOp.pre
    /\ emitted = <<>>

(* C10: arrive on a destroyed territory returns a diff whose previous and   *)
(* current agree on owner, energy and silver, and beyond bringing the       *)
(* territory current to the arrival time it changes none of owner, energy,  *)
(* silver and heldArtifactIds.                                              *)
C10_DestroyedAbsorbsNothing ==
    ( lastOp.op = "arrive" /\ lastOp.pre.destroyed
      /\ lastOp.arrival.toPlanet = lastOp.pre.locationId )
    => LET current == updatePlanetToTime(lastOp.pre, ArtifactsArgument,
                                         lastOp.arrival.arrivalTime)
       IN  /\ diff.set
           /\ diff.previous.owner = diff.current.owner
           /\ diff.previous.energy = diff.current.energy
           /\ diff.previous.silver = diff.current.silver
           /\ diff.current = TheOne
           /\ TheOne.owner = lastOp.pre.owner
           /\ TheOne.heldArtifactIds = lastOp.pre.heldArtifactIds
           /\ TheOne.energy = current.energy
           /\ TheOne.silver = current.silver

(* a hostile arrival with energy, silver and an artifact met a destroyed territory *)
C10_Witness ==
    /\ lastOp.op = "arrive"
    /\ lastOp.pre.destroyed
    /\ lastOp.arrival.toPlanet = lastOp.pre.locationId
    /\ lastOp.arrival.player # lastOp.pre.owner
    /\ lastOp.arrival.energyArriving > 0
    /\ lastOp.arrival.silverMoved > 0
    /\ lastOp.arrival.artifactId # Undefined
    /\ lastOp.pre.silver + lastOp.arrival.silverMoved <= lastOp.pre.silverCap
    /\ diff.set /\ diff.previous = diff.current

(* C11: once destroyed is set, no updatePlanetToTime, called on its own or  *)
(* as the bring-current inside arrive, changes the energy or the silver of  *)
(* the territory.                                                           *)
C11_DestroyedNeverRegenerates ==
    [][ TheOne.destroyed
        => ( TheOne'.energy = TheOne.energy /\ TheOne'.silver = TheOne.silver ) ]_vars

(* C12: once arrive has set destroyed, no later arrive or updatePlanetToTime *)
(* clears the flag or changes the owner.                                    *)
C12_DestroyedIsTerminal ==
    [][ ( TheOne.destroyed /\ destroyedByArrive )
        => ( TheOne'.destroyed /\ TheOne'.owner = TheOne.owner ) ]_vars

(* a territory destroyed by an arrive met a hostile arrival strong enough   *)
(* to conquer it, and kept its owner and its flag                           *)
C12_Witness ==
    /\ lastOp.op = "arrive"
    /\ lastOp.pre.destroyed
    /\ destroyedByArrive
    /\ lastOp.arrival.toPlanet = lastOp.pre.locationId
    /\ lastOp.arrival.player # lastOp.pre.owner
    /\ EffectiveDamage(lastOp.arrival.energyArriving, lastOp.pre.defense) >= TheOne.energy
    /\ TheOne.destroyed
    /\ TheOne.owner = lastOp.pre.owner

(* did the last arrive raise? *)
Raised == ~diff.set /\ "threw" \in DOMAIN diff

(* C22: arrive with arrival.toPlanet different from toPlanet.locationId     *)
(* raises and leaves the territory unchanged; an arrive whose destination   *)
(* matches never raises.                                                    *)
C22_WrongDestinationRaises ==
    lastOp.op = "arrive"
    => /\ Raised <=> lastOp.arrival.toPlanet # lastOp.pre.locationId
       /\ Raised => TheOne = lastOp.pre

(* a hostile arrival for another territory, due after lastUpdated, was      *)
(* handed to arrive with an owned territory                                 *)
C22_Witness ==
    /\ lastOp.op = "arrive"
    /\ lastOp.arrival.toPlanet # lastOp.pre.locationId
    /\ lastOp.arrival.arrivalTime > lastOp.pre.lastUpdated
    /\ lastOp.arrival.energyArriving > 0
    /\ hasOwner(lastOp.pre) /\ lastOp.pre.energy > 0
    /\ Raised
    /\ TheOne = lastOp.pre

(* the territory of the last arrive, brought current to the arrival time *)
LastArriveCurrent ==
    updatePlanetToTime(lastOp.pre, ArtifactsArgument, lastOp.arrival.arrivalTime)

(* floor(energyArriving * CONTRACT_PRECISION * 100 / defense) of the last arrive *)
LastArriveDamage ==
    (lastOp.arrival.energyArriving * CONTRACT_PRECISION * 100) \div LastArriveCurrent.defense

(* the last operation was an arrive by another player than the owner, on    *)
(* the right territory                                                      *)
LastArriveHostile ==
    /\ lastOp.op = "arrive"
    /\ lastOp.arrival.toPlanet = lastOp.pre.locationId
    /\ lastOp.arrival.player # LastArriveCurrent.owner

(* what C23 claims of a hostile arrive that meets more energy than its damage *)
NonConqueringHit ==
    /\ TheOne.owner = lastOp.pre.owner
    /\ TheOne.destroyed = lastOp.pre.destroyed
    /\ TheOne.energy = LastArriveCurrent.energy - LastArriveDamage
    /\ TheOne.energy > 0

LastArriveConquestEnergy ==
    lastOp.arrival.energyArriving * CONTRACT_PRECISION
      - (LastArriveCurrent.energy * LastArriveCurrent.defense) \div 100

(* C24 as claimed: whenever the arriving player differs from the owner and  *)
(* the energy is at most D, the arriving player becomes the owner and the   *)
(* energy becomes energyArriving - floor(priorEnergy * defense / 100).      *)
C24_ConquestTransfers ==
    ( LastArriveHostile /\ LastArriveCurrent.energy <= LastArriveDamage )
    => /\ TheOne.owner = lastOp.arrival.player
       /\ TheOne.energy = LastArriveConquestEnergy

(* C24 amended: the same for a territory that is not destroyed, the energy  *)
(* of a SILVER_BANK being capped at energyCap; a destroyed territory keeps  *)
(* its owner and its energy.                                                *)
C24_ConquestTransfersUnlessDestroyed ==
    ( LastArriveHostile /\ LastArriveCurrent.energy <= LastArriveDamage )
    => IF lastOp.pre.destroyed
       THEN /\ TheOne.owner = lastOp.pre.owner
            /\ TheOne.energy = LastArriveCurrent.energy
       ELSE /\ TheOne.owner = lastOp.arrival.player
            /\ TheOne.energy =
                 IF /\ TheOne.planetType = "SILVER_BANK"
                    /\ LastArriveConquestEnergy > TheOne.energyCap
                 THEN TheOne.energyCap
                 ELSE LastArriveConquestEnergy

(* a territory with 10 energy and defense 100 was conquered by 200: 190 left *)
C24_Witness ==
    /\ LastArriveHostile
    /\ ~lastOp.pre.destroyed
    /\ lastOp.pre.planetType = "PLANET"
    /\ LastArriveCurrent.energy = 10 * CONTRACT_PRECISION
    /\ LastArriveCurrent.defense = 100
    /\ lastOp.arrival.energyArriving = 200
    /\ TheOne.owner = lastOp.arrival.player
    /\ TheOne.energy = 190 * CONTRACT_PRECISION

C29_DestroyOnConquest ==
    ( /\ lastOp.op = "arrive"
      /\ lastOp.arrival.toPlanet = lastOp.pre.locationId
      /\ ~lastOp.pre.destroyed )
    => ( TheOne.destroyed
         <=> /\ lastOp.arrival.player # LastArriveCurrent.owner
             /\ LastArriveCurrent.energy <= LastArriveDamage
             /\ lastOp.pre.owner # EMPTY_ADDRESS
             /\ contractConstants.DESTROY_THRESHOLD > 0
             /\ LastArriveDamage
                  > LastArriveCurrent.energy * contractConstants.DESTROY_THRESHOLD )

(* an owner's territory was conquered with more than twice its energy and   *)
(* destroyed                                                                *)
C29_Witness ==
    /\ LastArriveHostile
    /\ ~lastOp.pre.destroyed
    /\ lastOp.pre.owner # EMPTY_ADDRESS
    /\ LastArriveCurrent.energy > 0
    /\ contractConstants.DESTROY_THRESHOLD = 2
    /\ LastArriveDamage > 2 * LastArriveCurrent.energy
    /\ TheOne.owner = lastOp.arrival.player
    /\ TheOne.destroyed

(* the time-delayed upgrade that a bring-current to atTime finds due *)
DuePhotoid(planet, planetArtifacts, atTime) ==
    \E i \in 1..Len(planetArtifacts) :
        /\ planetArtifacts[i].artifactType = "PhotoidCannon"
        /\ planetArtifacts[i].lastActivated > planetArtifacts[i].lastDeactivated
        /\ atTime - planetArtifacts[i].lastActivated >= PHOTOID_ACTIVATION_DELAY

(* the target time of the bring-current of an operation, when it makes one *)
BringsCurrent(op, planet) ==
    \/ op.op = "updatePlanetToTime" /\ op.atTime >= planet.lastUpdated
    \/ /\ op.op = "arrive"
       /\ op.arrival.toPlanet = planet.locationId
       /\ op.arrival.arrivalTime >= planet.lastUpdated

TargetTime(op) == IF op.op = "arrive" THEN op.arrival.arrivalTime ELSE op.atTime

(* the fields applyUpgrade writes *)
UpgradedFields(planet) ==
    <<planet.speed, planet.energyGrowth, planet.range, planet.defense>>

PendingFor(e) == { t \in timers : t.arrival.eventId = e }

(* C1: once the timer of an arrival has run arrive(), the arrival's id is   *)
(* absent from arrivals and from planetArrivalIds of its destination.       *)
C1_ResolvedArrivalRetired ==
    lastOp.op = "applyFutureArrival"
    => /\ lastOp.arrival.eventId \notin DOMAIN arrivals
       /\ lastOp.arrival.eventId \notin SeqToSet(planetArrivalIds[lastOp.arrival.toPlanet])

(* C2 as claimed: arrive() is applied at most once for each eventId. *)
C2_AppliedOnce == \A e \in VoyageIds : appliedCount[e] <= 1

(* C2 amended: arrive() is applied at most once for each time an arrival    *)
(* list supplies the arrival: the applications made and the timers pending  *)
(* for an eventId never outnumber the lists that supplied it.               *)
C2_AppliedOncePerIngestion ==
    \A e \in VoyageIds :
        /\ appliedCount[e] + Cardinality(PendingFor(e)) <= ingestCount[e]
        /\ Cardinality(PendingFor(e)) <= 1

(* an arrival resolved by its timer was supplied again and resolved again *)
C2_Witness ==
    /\ lastOp.op = "replacePlanetFromContractData"
    /\ lastOp.applied # <<>>
    /\ \E e \in SeqToSet(lastOp.applied) : appliedCount[e] = 2 /\ ingestCount[e] = 2

(* C3: after replacePlanetFromContractData with an arrival list no timer    *)
(* that was pending for the territory before the call is pending or runs,   *)
(* and arrivals and planetArrivalIds hold for the territory exactly the     *)
(* arrivals of the list that were given a timer by the call.                *)
C3_NoStaleTimer ==
    /\ \A t \in timers : t.handle \notin cancelled
    /\ lastOp.op = "applyFutureArrival" => lastOp.handle \notin cancelled
    /\ ( lastOp.op = "replacePlanetFromContractData" /\ lastOp.withArrivals )
       => LET l == lastOp.planet.locationId
              future == { e \in SeqToSet(lastOp.updatedArrivals) : ~isPastDue(Voyage(e), now) }
          IN  /\ SeqToSet(planetArrivalIds[l]) = future
              /\ { e \in DOMAIN arrivals : Voyage(e).toPlanet = l } = future
              /\ { t.handle : t \in { u \in timers : u.arrival.toPlanet = l } }
                    = { arrivals[e].timer : e \in future }

(* a list replaced the arrivals of a territory that had a timer pending, and *)
(* installed a new timer                                                     *)
C3_Witness ==
    /\ lastOp.op = "replacePlanetFromContractData"
    /\ lastOp.withArrivals
    /\ \E h \in cancelled : h[1] \in SeqToSet(lastOp.updatedArrivals) /\ h[2] = ingestCount[h[1]] - 1
    /\ \E t \in timers : t.arrival.toPlanet = lastOp.planet.locationId

(* C4: replacePlanetFromContractData carries every pending slot of the      *)
(* local planet (list-valued, singleton, flag) over to the replacing planet, *)
(* and replaceArtifactFromContractData every pending slot of the artifact.  *)
C4_PendingSlotsCarried ==
    [][ /\ ( /\ lastOp'.op = "replacePlanetFromContractData"
             /\ planets[lastOp'.planet.locationId] # NoRef )
           => \A f \in SingletonSlots \cup ListSlots \cup FlagSlots :
                 heap'[planets'[lastOp'.planet.locationId]][f]
                    = heap[planets[lastOp'.planet.locationId]][f]
        /\ ( /\ lastOp'.op = "replaceArtifactFromContractData"
             /\ lastOp'.artifact.id \in DOMAIN artifacts )
           => \A f \in ArtifactSlots :
                 artifacts'[lastOp'.artifact.id][f] = artifacts[lastOp'.artifact.id][f]
      ]_vars

(* C9 as claimed: the lastUpdated of the stored planet of an id never       *)
(* decreases, whatever the operation.                                       *)
C9_StoredTimeNeverDecreases ==
    [][ \A l \in LocationIds :
          planets[l] # NoRef => heap'[planets'[l]].lastUpdated >= Stored(l).lastUpdated ]_vars

(* C9 amended: the lastUpdated of the stored planet never decreases under a *)
(* stale read or a timer's arrive; replacePlanetFromContractData installs   *)
(* the contract's planet, whose lastUpdated may be earlier than the stored  *)
(* one, and the arrivals it applies never take it below the contract's.     *)
C9_StoredTimeMonotonicButReplace ==
    [][ \A l \in LocationIds :
          planets'[l] # NoRef =>
            IF lastOp'.op = "replacePlanetFromContractData" /\ lastOp'.planet.locationId = l
            THEN heap'[planets'[l]].lastUpdated >= lastOp'.planet.lastUpdated
            ELSE /\ planets[l] # NoRef
                 /\ heap'[planets'[l]].lastUpdated >= Stored(l).lastUpdated ]_vars

(* a planet was installed with an arrival earlier than its lastUpdated *)
C9_Witness ==
    /\ lastOp.op = "replacePlanetFromContractData"
    /\ \E e \in SeqToSet(lastOp.applied) : Voyage(e).arrivalTime < lastOp.planet.lastUpdated
    /\ Stored(lastOp.planet.locationId).lastUpdated = lastOp.planet.lastUpdated

(* the call ingested an arrival list for a territory *)
Ingested ==
    \/ lastOp.op = "constructor"
    \/ lastOp.op = "replacePlanetFromContractData" /\ lastOp.withArrivals

(* C13: every arrival resolution is followed by a commit of its destination *)
(* through setPlanet: after the timer of an arrival has fired, and after a  *)
(* past-due arrival was applied by replacePlanetFromContractData, the id of *)
(* the territory was published on planetUpdated$ after the mutation.        *)
C13_ResolutionCommitted ==
    /\ lastOp.op = "applyFutureArrival"
         => lastOp.arrival.toPlanet \in SeqToSet(lastOp.publishedAfter)
    /\ ( lastOp.op = "replacePlanetFromContractData" /\ lastOp.applied # <<>> )
         => lastOp.planet.locationId \in SeqToSet(lastOp.publishedAfter)

IsSortedByArrivalTime(ids) ==
    \A i, j \in 1..Len(ids) : i < j => Voyage(ids[i]).arrivalTime <= Voyage(ids[j]).arrivalTime

(* C14: the arrivals of one ingested list are resolved in non-decreasing    *)
(* arrivalTime order: the past-due ones are applied sorted by arrivalTime,  *)
(* none of them is later than an arrival of the list that was given a       *)
(* timer, and when a timer fires no timer of the same list that is still    *)
(* pending is for an earlier arrivalTime.                                   *)
C14_ResolvedInTimeOrder ==
    /\ Ingested =>
          /\ IsSortedByArrivalTime(lastOp.applied)
          /\ \A t \in timers :
                t.arrival.toPlanet = lastOp.planet.locationId
                => \A i \in 1..Len(lastOp.applied) :
                      Voyage(lastOp.applied[i]).arrivalTime <= t.arrival.arrivalTime
    /\ lastOp.op = "applyFutureArrival" =>
          \A u \in timers :
              u.planet = lastOp.planet => u.arrival.arrivalTime >= lastOp.arrival.arrivalTime

(* a list given out of order had its two past-due arrivals applied in order *)
C14_Witness ==
    /\ lastOp.op = "replacePlanetFromContractData"
    /\ lastOp.withArrivals
    /\ lastOp.updatedArrivals = <<2, 1>>
    /\ lastOp.applied = <<1, 2>>
    /\ Voyage(1).arrivalTime < Voyage(2).arrivalTime

(* C15: an arrival whose arrivalTime is in the past when its list is        *)
(* ingested is applied during the ingestion and has no timer and no entry   *)
(* in arrivals or planetArrivalIds; after the ingestion planetArrivalIds of *)
(* the territory holds exactly the ids of the list that are not past-due.   *)
C15_PastDueAppliedAtOnce ==
    Ingested =>
      LET l == lastOp.planet.locationId
          listed == SeqToSet(lastOp.updatedArrivals)
          pastDue == { e \in listed : now - Voyage(e).arrivalTime > 0 }
      IN  /\ SeqToSet(lastOp.applied) = pastDue
          /\ \A e \in pastDue :
                /\ e \notin DOMAIN arrivals
                /\ e \notin SeqToSet(planetArrivalIds[l])
                /\ PendingFor(e) = {}
          /\ SeqToSet(planetArrivalIds[l]) = listed \ pastDue

(* a list with one past-due arrival and one arrival due this very second    *)
(* was ingested: the first was applied, the second given a timer            *)
C15_Witness ==
    /\ lastOp.op = "replacePlanetFromContractData"
    /\ lastOp.withArrivals
    /\ lastOp.applied = <<1>>
    /\ planetArrivalIds[1] = <<2>>
    /\ Voyage(2).arrivalTime = now
    /\ PendingFor(2) # {} /\ PendingFor(1) = {}

(* C18: in every reachable state myPlanets holds exactly the entries of     *)
(* planets whose owner is the logged-in player.                             *)
C18_MyPlanetsExact ==
    \A l \in LocationIds :
        myPlanets[l] = IF planets[l] # NoRef /\ Stored(l).owner = ME THEN planets[l] ELSE NoRef

(* C16: an addPlanetLocation with a location that was learned before leaves *)
(* the one territory entry of the id in place with its state unchanged, and *)
(* leaves planetLocationMap and coordsToLocation unchanged.                 *)
C16_LearnLocationIdempotent ==
    [][ ( lastOp'.op = "addPlanetLocation" /\ lastOp'.known )
        => LET hash == lastOp'.planetLocation.hash
           IN  /\ planets[hash] # NoRef
               /\ planets' = planets
               /\ heap'[planets'[hash]] = heap[planets[hash]]
               /\ myPlanets' = myPlanets
               /\ planetLocationMap' = planetLocationMap
               /\ coordsToLocation' = coordsToLocation ]_vars

(* a location was learned again after its territory had got an owner and a  *)
(* pending reveal                                                           *)
C16_Witness ==
    /\ lastOp.op = "addPlanetLocation"
    /\ lastOp.known
    /\ planets[lastOp.planetLocation.hash] # NoRef
    /\ Stored(lastOp.planetLocation.hash).owner = ME
    /\ Stored(lastOp.planetLocation.hash).unconfirmedReveal # Undefined
    /\ Stored(lastOp.planetLocation.hash).location = lastOp.planetLocation

(* C17: wormholes has an entry for an artifact id if and only if the stored *)
(* artifact is a Wormhole that is activated, has a wormholeTo target and is *)
(* on a planet.                                                             *)
C17_WormholesExact ==
    \A id \in ArtifactIds :
        id \in DOMAIN wormholes
        <=> /\ id \in DOMAIN artifacts
            /\ artifacts[id].artifactType = "Wormhole"
            /\ isActivated(artifacts[id])
            /\ artifacts[id].wormholeTo # Undefined
            /\ artifacts[id].onPlanetId # Undefined

(* C19: clearUnconfirmedTxIntent of a move, upgrade, buy-hat or transfer    *)
(* intent leaves no entry with its action id in the pending list of the     *)
(* territory nor in the store's record of the kind, and leaves the other    *)
(* entries in place, in their order.                                        *)
C19_ListDetach ==
    [][ ( lastOp'.op = "clearUnconfirmedTxIntent" /\ lastOp'.tx.kind \in ListKinds )
        => LET tx == lastOp'.tx
               l == tx.locationId
               slot == planetSlot(tx.kind)
           IN  /\ planets[l] # NoRef
                    => heap'[planets'[l]][slot]
                         = SelectSeq(Stored(l)[slot], LAMBDA id : id # tx.actionId)
               /\ txs'[globalRecord(tx.kind)] = txs[globalRecord(tx.kind)] \ {tx.actionId}
               /\ \A k \in ListKinds \ {tx.kind} :
                     txs'[globalRecord(k)] = txs[globalRecord(k)] ]_vars

(* the middle one of three pending moves of a territory was cleared *)
C19_Witness ==
    /\ lastOp.op = "clearUnconfirmedTxIntent"
    /\ lastOp.tx.kind = "move"
    /\ Len(lastOp.before) = 3
    /\ lastOp.before[2] = lastOp.tx.actionId
    /\ Stored(lastOp.tx.locationId).unconfirmedDepartures
          = <<lastOp.before[1], lastOp.before[3]>>
    /\ txs.unconfirmedMoves = {lastOp.before[1], lastOp.before[3]}

(* attached and not yet cleared *)
IsPending(tx) == intentLog[tx.actionId].on = 1 /\ intentLog[tx.actionId].off = 0

(* C20: the pending slots of the territory and of the artifact and the      *)
(* records of the store are determined by which intents have been attached  *)
(* and which cleared, whatever the order of the calls: a slot or record     *)
(* holds an intent exactly while the intent is attached and not cleared,    *)
(* and a second clear of an intent leaves all of them as the first did.     *)
C20_OrderIndependent ==
    \A tx \in IntentPool :
        /\ planets[tx.locationId] # NoRef
             => IF tx.kind \in ListKinds
                THEN LET list == Stored(tx.locationId)[planetSlot(tx.kind)]
                     IN  /\ tx.actionId \in SeqToSet(list) <=> IsPending(tx)
                         /\ Len(list) = Cardinality(SeqToSet(list))
                ELSE Stored(tx.locationId)[planetSlot(tx.kind)]
                        = IF IsPending(tx) THEN tx.actionId ELSE Undefined
        /\ ( tx.kind \in ArtifactKinds /\ tx.artifactId \in DOMAIN artifacts )
             => artifacts[tx.artifactId][artifactSlot(tx.kind)]
                   = IF IsPending(tx) THEN tx.actionId ELSE Undefined
        /\ tx.kind \in ListKinds
             => ( tx.actionId \in txs[globalRecord(tx.kind)] <=> IsPending(tx) )
        /\ tx.kind = "reveal"
             => txs.unconfirmedReveal = IF IsPending(tx) THEN tx.actionId ELSE Undefined
        /\ tx.kind = "activate"
             => ( tx.actionId \in SeqToSet(txs.unconfirmedWormholeActivations)
                  <=> ( IsPending(tx) /\ tx.wormholeTo # Undefined ) )

(* a move and an activation on the same territory and the same artifact     *)
(* were both attached and both cleared, the activation twice                *)
C20_Witness ==
    /\ intentLog[2] = [on |-> 1, off |-> 1]
    /\ intentLog[3] = [on |-> 1, off |-> 2]
    /\ lastOp.op = "clearUnconfirmedTxIntent"
    /\ Stored(1).unconfirmedDepartures = <<>>
    /\ Stored(1).unconfirmedActivateArtifact = Undefined
    /\ artifacts[1].unconfirmedMove = Undefined
    /\ artifacts[1].unconfirmedActivateArtifact = Undefined
    /\ txs = NoTxs

(* C35: every id that has an entry in planetLocationMap has an entry in    *)
(* planets, and no step removes an entry from planets.                     *)
C35_KnownLocationIsStored ==
    [][ /\ \A l \in DOMAIN planetLocationMap : planets[l] # NoRef
        /\ \A l \in DOMAIN planetLocationMap' : planets'[l] # NoRef
        /\ \A l \in LocationIds : planets[l] # NoRef => planets'[l] # NoRef ]_vars

(* the contract reported a planet for an id whose location had been        *)
(* learned, and the id is still stored                                     *)
C35_Witness ==
    /\ lastOp.op = "replacePlanetFromContractData"
    /\ lastOp.planet.locationId \in DOMAIN planetLocationMap
    /\ lastOp.local # NoRef
    /\ planets[lastOp.planet.locationId] # NoRef
    /\ Stored(lastOp.planet.locationId).owner # EMPTY_ADDRESS

(* C31: a territory whose energy is exactly 0 has energy 0 after every     *)
(* updatePlanetToTime, with or without an owner and whatever its growth;   *)
(* a step that raises the energy from 0 is an arrive.                      *)
C31_EmptyStaysEmpty ==
    [][ /\ ( lastOp'.op = "updatePlanetToTime" /\ heap[1].energy = 0 )
             => heap'[1].energy = 0
        /\ ( heap[1].energy = 0 /\ heap'[1].energy > 0 )
             => lastOp'.op = "arrive" ]_vars

(* an empty territory that has an owner and a positive growth rate was     *)
(* brought to a later time                                                 *)
C31_Witness ==
    /\ lastOp.op = "updatePlanetToTime"
    /\ lastOp.pre.energy = 0
    /\ lastOp.pre.owner # EMPTY_ADDRESS
    /\ lastOp.pre.energyGrowth > 0
    /\ ~lastOp.pre.destroyed
    /\ lastOp.atTime > lastOp.pre.lastUpdated
    /\ TheOne.lastUpdated = lastOp.atTime
    /\ TheOne.energy = 0

(***************************************************************************)
(* The procedural generator called again and again while the clock runs    *)
(* and the contract reports planets.                                       *)
(***************************************************************************)
(* defaultPlanetFromLocation(location), called by the store *)
CallDefaultPlanetFromLocation(location) ==
    /\ lastOp' = [op |-> "defaultPlanetFromLocation", location |-> location,
                  returned |-> defaultPlanetFromLocation(location, now, touchedPlanetIds)]
    /\ emitted' = <<>>
    /\ diff' = NoDiff
    /\ UNCHANGED <<now, heap, planets, myPlanets, artifacts, arrivals, planetArrivalIds,
                   timers, txs, appliedCount, ingestCount, cancelled, opCount,
                   planetLocationMap, coordsToLocation, wormholes, intentLog,
                   contractConstants, touchedPlanetIds>>

NextGenerator ==
    \/ Tick
    \/ \E location \in Locations : CallDefaultPlanetFromLocation(location)
    \/ \E planetLocation \in Locations : addPlanetLocation(planetLocation)
    \/ \E l \in LocationIds : \E planet \in ContractPlanets(l, now) :
         replacePlanetFromContractData(planet, FALSE, <<>>, FALSE, <<>>)

SpecGenerator == InitLocations /\ [][NextGenerator]_vars

(***************************************************************************)
(* The functions of the generator on their own: one call of one function   *)
(* on inputs drawn from the hashes, noise samples and rulesets below.      *)
(***************************************************************************)
(* getBytesFromHex(hex, 4, 7) of the hashes: 0, the largest integer of     *)
(* three bytes, and the integers at and next to every threshold            *)
LevelIntegers ==
    { n \in {0, 16777215} \cup { planetLevelThresholds[i] + d : i \in 1..10, d \in {-1, 0, 1} } :
        n >= 0 /\ n < 16777216 }

(* the noise samples: at, below and above every PERLIN_THRESHOLD *)
Perlins == {0, PERLIN_THRESHOLD_1 - 1, PERLIN_THRESHOLD_1, PERLIN_THRESHOLD_2,
            PERLIN_THRESHOLD_3 - 1, PERLIN_THRESHOLD_3, 31}

(* contractConstants.planetLevelThresholds: the table of the round, and a   *)
(* table that leaves the largest integers below no threshold                *)
ThresholdTables ==
    { planetLevelThresholds,
      <<4194292, 4194292, 1048561, 262128, 65520, 16368, 4080, 1008, 240, 48>> }

(* contractConstants.PLANET_TYPE_WEIGHTS[spaceType][planetLevel]: the rows  *)
(* of the round and every row of small weights with a positive sum          *)
WeightVectors ==
    { PLANET_TYPE_WEIGHTS(st, lv) : st \in {NEBULA, SPACE, DEEP_SPACE, DEAD_SPACE}, lv \in {0, 1} }
      \cup { w \in [1..5 -> {0, 1, MaxWeight}] : w[1] + w[2] + w[3] + w[4] + w[5] \in 1..(MaxWeight + 2) }

(* getBytesFromHex(hex, 8, 9) of the hashes *)
TypeBytes == 0..255

(* every combination of bonuses bonusFromHex can return *)
Bonuses == [1..5 -> BOOLEAN]

(* the levels planetLevelFromHexPerlin returns in a space type *)
NaturalLevels(spaceType) ==
    { lv \in MIN_PLANET_LEVEL..MAX_NATURAL_PLANET_LEVEL :
        /\ spaceType = NEBULA => lv <= 4
        /\ spaceType = SPACE => lv <= 5 }

(* the types planetTypeFromHexPerlin returns for a space type and a level *)
NaturalTypes(spaceType, planetLevel) ==
    { ty \in 1..5 : PLANET_TYPE_WEIGHTS(spaceType, planetLevel)[ty] > 0 }

FunctionInputs ==
    { [function |-> "planetLevelFromHexPerlin", levelBigInt |-> n, perlin |-> pn,
       thresholds |-> th] : n \in LevelIntegers, pn \in Perlins, th \in ThresholdTables }
      \cup
    { [function |-> "planetTypeFromHexPerlin", weights |-> w, typeByte |-> b] :
        w \in WeightVectors, b \in TypeBytes }
      \cup
    UNION { UNION { { [function |-> "defaultPlanetFromLocation", location |-> loc,
                       planetLevel |-> lv, planetType |-> PlanetTypes[ty],
                       spaceType |-> st, bonus |-> bn] :
                        loc \in Locations, ty \in NaturalTypes(st, lv), bn \in Bonuses } :
                    lv \in NaturalLevels(st) } :
            st \in {NEBULA, SPACE, DEEP_SPACE, DEAD_SPACE} }

(* an empty store and the arguments of the call to come *)
InitFunctions ==
    /\ now = 3
    /\ heap = <<>>
    /\ planets = [l \in LocationIds |-> NoRef]
    /\ myPlanets = [l \in LocationIds |-> NoRef]
    /\ emitted = <<>>
    /\ artifacts = <<>>
    /\ arrivals = <<>>
    /\ planetArrivalIds = <<>>
    /\ timers = {}
    /\ txs = NoTxs
    /\ diff = NoDiff
    /\ \E input \in FunctionInputs : lastOp = [op |-> "constructor", input |-> input]
    /\ ingestCount = [e \in VoyageIds |-> 0]
    /\ appliedCount = [e \in VoyageIds |-> 0]
    /\ cancelled = {}
    /\ opCount = 0
    /\ planetLocationMap = <<>>
    /\ coordsToLocation = <<>>
    /\ wormholes = <<>>
    /\ intentLog = NoIntentLog
    /\ contractConstants = [DESTROY_THRESHOLD |-> 2]
    /\ touchedPlanetIds = {}

UNCHANGED_butLastOp ==
    UNCHANGED <<now, heap, planets, myPlanets, artifacts, arrivals, planetArrivalIds,
                timers, txs, emitted, diff, appliedCount, ingestCount, cancelled, opCount,
                planetLocationMap, coordsToLocation, wormholes, intentLog,
                contractConstants, touchedPlanetIds>>

(* planetLevelFromHexPerlin(hex, perlin) *)
CallPlanetLevelFromHexPerlin ==
    /\ lastOp.op = "constructor"
    /\ lastOp.input.function = "planetLevelFromHexPerlin"
    /\ lastOp' = [op |-> "planetLevelFromHexPerlin", input |-> lastOp.input,
                  returned |-> planetLevelOf(lastOp.input.levelBigInt,
                                             spaceTypeFromPerlin(lastOp.input.perlin),
                                             lastOp.input.thresholds)]
    /\ UNCHANGED_butLastOp

(* planetTypeFromHexPerlin(hex, perlin) *)
CallPlanetTypeFromHexPerlin ==
    /\ lastOp.op = "constructor"
    /\ lastOp.input.function = "planetTypeFromHexPerlin"
    /\ lastOp' = [op |-> "planetTypeFromHexPerlin", input |-> lastOp.input,
                  returned |-> planetTypeOf(lastOp.input.weights, lastOp.input.typeByte)]
    /\ UNCHANGED_butLastOp

(* defaultPlanetFromLocation(location), for a hash and noise samples that  *)
(* give the level, type, space type and bonus of the input                 *)
CallDefaultPlanetOf ==
    /\ lastOp.op = "constructor"
    /\ lastOp.input.function = "defaultPlanetFromLocation"
    /\ lastOp' = [op |-> "defaultPlanetFromLocation", input |-> lastOp.input,
                  returned |-> defaultPlanetOf(lastOp.input.location, now,
                                               lastOp.input.planetLevel,
                                               lastOp.input.planetType,
                                               lastOp.input.spaceType,
                                               lastOp.input.bonus)]
    /\ UNCHANGED_butLastOp

NextFunctions ==
    \/ CallPlanetLevelFromHexPerlin
    \/ CallPlanetTypeFromHexPerlin
    \/ CallDefaultPlanetOf

SpecFunctions == InitFunctions /\ [][NextFunctions]_vars

(***************************************************************************)
(* Properties of the functions of the generator (SpecFunctions).           *)
(***************************************************************************)
(* the levels whose threshold is strictly greater than the integer *)
LevelsAbove(levelBigInt, thresholds) ==
    { t \in MIN_PLANET_LEVEL..MAX_PLANET_LEVEL : thresholds[t + 1] > levelBigInt }

(* C32: planetLevelFromHexPerlin returns the highest level whose threshold *)
(* is strictly greater than the integer of the hash, MIN_PLANET_LEVEL if   *)
(* there is none, lowered to FOUR in NEBULA, to FIVE in SPACE and to       *)
(* MAX_NATURAL_PLANET_LEVEL, and never below MIN_PLANET_LEVEL.             *)
C32_LevelFromThresholds ==
    lastOp.op = "planetLevelFromHexPerlin"
    => LET n == lastOp.input.levelBigInt
           above == LevelsAbove(n, lastOp.input.thresholds)
           highest == IF above = {} THEN MIN_PLANET_LEVEL
                      ELSE CHOOSE t \in above : \A u \in above : u <= t
           caps == {MAX_NATURAL_PLANET_LEVEL}
                     \cup (IF lastOp.input.perlin < PERLIN_THRESHOLD_1 THEN {4} ELSE {})
                     \cup (IF /\ lastOp.input.perlin >= PERLIN_THRESHOLD_1
                              /\ lastOp.input.perlin < PERLIN_THRESHOLD_2 THEN {5} ELSE {})
       IN  /\ lastOp.returned >= MIN_PLANET_LEVEL
           /\ \A c \in caps : lastOp.returned <= c
           /\ lastOp.returned = IF \E c \in caps : highest > c
                                THEN CHOOSE c \in caps : \A d \in caps : c <= d
                                ELSE highest

(* a hash whose integer lies below the threshold of level 6 and of no      *)
(* higher level, in SPACE: the level is lowered to FIVE                    *)
C32_Witness ==
    /\ lastOp.op = "planetLevelFromHexPerlin"
    /\ lastOp.input.levelBigInt = 1007
    /\ lastOp.input.perlin = PERLIN_THRESHOLD_1
    /\ lastOp.returned = 5

(* C33: for weights that are not negative and have a positive sum, and a   *)
(* type byte in 0..255, planetTypeFromHexPerlin returns the lowest index i *)
(* with typeByte >= floor((weightSum - w[0] - ... - w[i]) * 256 /          *)
(* weightSum); the weight of the bucket it returns is not 0, and the loop  *)
(* always finds a bucket.                                                  *)
C33_TypeFromWeights ==
    lastOp.op = "planetTypeFromHexPerlin"
    => LET w == lastOp.input.weights
           weightSum == w[1] + w[2] + w[3] + w[4] + w[5]
           upTo == [i \in 1..5 |-> IF i = 1 THEN w[1]
                                   ELSE IF i = 2 THEN w[1] + w[2]
                                   ELSE IF i = 3 THEN w[1] + w[2] + w[3]
                                   ELSE IF i = 4 THEN w[1] + w[2] + w[3] + w[4]
                                   ELSE weightSum]
           hit == { i \in 1..5 :
                      lastOp.input.typeByte >= ((weightSum - upTo[i]) * 256) \div weightSum }
       IN  /\ hit # {}
           /\ \E i \in hit : /\ \A j \in hit : i <= j
                              /\ lastOp.returned = PlanetTypes[i]
                              /\ w[i] > 0

(* a byte on the threshold of the fourth bucket, after a bucket of weight 0 *)
C33_Witness ==
    /\ lastOp.op = "planetTypeFromHexPerlin"
    /\ lastOp.input.weights = <<13, 2, 0, 1, 0>>
    /\ lastOp.input.typeByte = 0
    /\ lastOp.returned = "TRADING_POST"

(* C34 as stated: every territory defaultPlanetFromLocation synthesizes is *)
(* unowned and not destroyed and has 0 <= energy <= energyCap and          *)
(* 0 <= silver <= silverCap                                                *)
C34_DefaultWithinCaps ==
    lastOp.op = "defaultPlanetFromLocation"
    => /\ lastOp.returned.owner = EMPTY_ADDRESS
       /\ ~lastOp.returned.destroyed
       /\ 0 <= lastOp.returned.energy
       /\ lastOp.returned.energy <= lastOp.returned.energyCap
       /\ 0 <= lastOp.returned.silver
       /\ lastOp.returned.silver <= lastOp.returned.silverCap

(* the factor of the space type on the energy of the pirates *)
PirateFactor(spaceType) ==
    IF spaceType = DEAD_SPACE THEN 20
    ELSE IF spaceType = DEEP_SPACE THEN 10
    ELSE IF spaceType = SPACE THEN 4
    ELSE 1

(* the energy of the pirates in hundredths of the cap, for the levels 0..9 *)
(* of the ruleset of the round                                             *)
PiratePercentage(planetLevel, spaceType) ==
    <<0, 1, 2, 3, 4, 5, 7, 10, 20, 25>>[planetLevel + 1] * PirateFactor(spaceType)

(* C34: every territory defaultPlanetFromLocation synthesizes is unowned   *)
(* and not destroyed and has 0 <= silver <= silverCap and energy >= 0; its *)
(* energy is at most energyCap if the percentage of its level times the    *)
(* factor of its space type (20, 10, 4, 1) is at most 100, and above       *)
(* energyCap otherwise, as for the levels 6 and 7 in DEAD_SPACE.           *)
C34_DefaultWithinSilverCap ==
    lastOp.op = "defaultPlanetFromLocation"
    => /\ lastOp.returned.owner = EMPTY_ADDRESS
       /\ ~lastOp.returned.destroyed
       /\ 0 <= lastOp.returned.energy
       /\ 0 <= lastOp.returned.silver
       /\ lastOp.returned.silver <= lastOp.returned.silverCap
       /\ lastOp.returned.energy <= lastOp.returned.energyCap
            <=> PiratePercentage(lastOp.input.planetLevel, lastOp.input.spaceType) <= 100

(* a level 6 territory of DEAD_SPACE is synthesized with more energy than  *)
(* its cap                                                                 *)
C34_Witness ==
    /\ lastOp.op = "defaultPlanetFromLocation"
    /\ lastOp.input.spaceType = DEAD_SPACE
    /\ lastOp.input.planetLevel = 6
    /\ lastOp.input.planetType = "SILVER_MINE"
    /\ lastOp.returned.energy > lastOp.returned.energyCap
    /\ lastOp.returned.silver > 0
    /\ lastOp.returned.silver <= lastOp.returned.silverCap

GeneratedCore(planet) == [planet EXCEPT !.lastUpdated = 0, !.isInContract = FALSE]

Unknown(id) == planets[id] = NoRef /\ id \notin DOMAIN planetLocationMap

(* the ids that have a planet *)
StoredIds == { l \in LocationIds : planets[l] # NoRef }

(* C21: missing data is answered by an absent result or a no-op:           *)
(* getPlanetWithId for an id that is neither stored nor has a known        *)
(* location returns undefined and leaves every map of the store unchanged, *)
(* updatePlanet on such an id changes and publishes nothing, and onTxIntent *)
(* and clearUnconfirmedTxIntent that refer to an unknown territory or an   *)
(* unknown item, or that clear an intent that was never recorded, complete  *)
(* and create no entry in planets or artifacts.                            *)
C21_MissingDataNoOp ==
    [][ /\ ( lastOp'.op = "getPlanetWithId" /\ Unknown(lastOp'.planetId) )
            => /\ lastOp'.returned = NoRef
               /\ emitted' = <<>>
               /\ UNCHANGED <<heap, planets, myPlanets, artifacts, wormholes, txs,
                              planetLocationMap, coordsToLocation, planetArrivalIds, arrivals>>
        /\ ( lastOp'.op = "updatePlanet" /\ Unknown(lastOp'.id) )
            => /\ emitted' = <<>>
               /\ UNCHANGED <<heap, planets, myPlanets, artifacts, wormholes, txs,
                              planetLocationMap, coordsToLocation, planetArrivalIds, arrivals>>
        /\ ( lastOp'.op \in {"onTxIntent", "clearUnconfirmedTxIntent"} )
            => /\ Unknown(lastOp'.tx.locationId)
                     => /\ emitted' = <<>>
                        /\ UNCHANGED <<heap, planets, myPlanets>>
               /\ lastOp'.tx.artifactId \notin DOMAIN artifacts
                     => UNCHANGED <<artifacts, wormholes>>
               /\ ( lastOp'.op = "clearUnconfirmedTxIntent"
                    /\ intentLog[lastOp'.tx.actionId].on = 0 )
                     => /\ { l \in LocationIds : planets'[l] # NoRef } = StoredIds
                        /\ DOMAIN heap' = DOMAIN heap
                        /\ DOMAIN artifacts' = DOMAIN artifacts ]_vars

(* an intent that was never recorded, on a territory and an item the store *)
(* does not know, was cleared                                              *)
C21_Witness ==
    /\ lastOp.op = "clearUnconfirmedTxIntent"
    /\ lastOp.tx.kind = "move"
    /\ Unknown(lastOp.tx.locationId)
    /\ lastOp.tx.artifactId # Undefined
    /\ lastOp.tx.artifactId \notin DOMAIN artifacts
    /\ intentLog[lastOp.tx.actionId].on = 0
    /\ intentLog[lastOp.tx.actionId].off = 1

(* C27: getPlanetWithId(id, true) on a stored territory brings it current  *)
(* and commits it only if more than 1 second has passed since its          *)
(* lastUpdated, and then it does; getPlanetWithId(id, false),              *)
(* getPlanetLevel and getPlanetDetailLevel change no field of a stored     *)
(* territory and publish nothing.                                          *)
C27_UpdateOnlyIfStale ==
    [][ /\ ( lastOp'.op = "getPlanetWithId" /\ planets[lastOp'.planetId] # NoRef )
            => LET id == lastOp'.planetId
                   before == heap[planets[id]]
               IN  /\ planets' = planets
                   /\ IF lastOp'.updateIfStale /\ now - before.lastUpdated > 1
                      THEN /\ heap'[planets[id]].lastUpdated = now
                           /\ heap'[planets[id]] =
                                updatePlanetToTime(before,
                                                   getPlanetArtifacts(before, artifacts), now)
                           /\ \A r \in DOMAIN heap \ {planets[id]} : heap'[r] = heap[r]
                           /\ emitted' = <<id>>
                      ELSE /\ heap' = heap
                           /\ myPlanets' = myPlanets
                           /\ emitted' = <<>>
        /\ ( lastOp'.op \in {"getPlanetLevel", "getPlanetDetailLevel"} )
            => /\ UNCHANGED <<heap, planets, myPlanets>>
               /\ emitted' = <<>> ]_vars

(* a read found the stored territory stale, brought it to the current time *)
(* and published it                                                        *)
C27_Witness ==
    /\ lastOp.op = "getPlanetWithId"
    /\ lastOp.updateIfStale
    /\ lastOp.planetId = 1
    /\ now >= 2
    /\ Stored(1).lastUpdated = now
    /\ Stored(1).energy > 50 * CONTRACT_PRECISION
    /\ emitted = <<1>>

(* C28: after a run of the periodic pass every stored territory that has   *)
(* an owner has lastUpdated at least the time of the pass, and every       *)
(* stored territory without an owner is as it was.                         *)
C28_PeriodicPass ==
    [][ lastOp'.op = "refreshOwnedPlanets"
        => /\ planets' = planets
           /\ \A l \in StoredIds :
                IF heap[planets[l]].owner # EMPTY_ADDRESS
                THEN heap'[planets[l]].lastUpdated >= now
                ELSE heap'[planets[l]] = heap[planets[l]] ]_vars

(* the pass advanced an owned territory and passed over an unowned one     *)
(* that was behind the clock                                               *)
C28_Witness ==
    /\ lastOp.op = "refreshOwnedPlanets"
    /\ lastOp.advanced # {}
    /\ \E l \in StoredIds : Stored(l).owner # EMPTY_ADDRESS /\ Stored(l).lastUpdated = now
    /\ \E l \in StoredIds : Stored(l).owner = EMPTY_ADDRESS /\ Stored(l).lastUpdated < now

(***************************************************************************)
(* C36: the two arrival indices agree: every id in a planetArrivalIds list *)
(* is a key of arrivals, and every entry of arrivals appears exactly once, *)
(* in the planetArrivalIds list of its destination and in no other list.   *)
(***************************************************************************)
C36_ArrivalIndicesAgree ==
    /\ \A l \in DOMAIN planetArrivalIds :
         \A i \in DOMAIN planetArrivalIds[l] : planetArrivalIds[l][i] \in DOMAIN arrivals
    /\ \A id \in DOMAIN arrivals :
         LET destination == arrivals[id].arrivalData.toPlanet
         IN  /\ arrivals[id].arrivalData.eventId = id
             /\ destination \in DOMAIN planetArrivalIds
             /\ Cardinality({ i \in DOMAIN planetArrivalIds[destination] :
                                planetArrivalIds[destination][i] = id }) = 1
             /\ \A l \in DOMAIN planetArrivalIds \ {destination} :
                  id \notin SeqToSet(planetArrivalIds[l])

(* a reconciliation with a fresh arrival list has cleared scheduled        *)
(* arrivals of a territory and the indices hold the new ones               *)
C36_Witness ==
    /\ lastOp.op = "replacePlanetFromContractData"
    /\ lastOp.withArrivals
    /\ cancelled # {}
    /\ \E id \in VoyageIds : id \notin DOMAIN arrivals /\ ingestCount[id] > 0
                              /\ appliedCount[id] = 0
    /\ arrivals # <<>>

(***************************************************************************)
(* C37: when the timer of a scheduled arrival fires, the object arrive()   *)
(* mutates is the object stored in planets under the destination id, also  *)
(* after a replacePlanetFromContractData without an arrival list replaced  *)
(* the territory between scheduling and firing.                            *)
(***************************************************************************)
C37_TimerMutatesCanonical ==
    lastOp.op = "applyFutureArrival" => lastOp.planet = planets[lastOp.arrival.toPlanet]

(* the territory the reveal with an action id names *)
RevealTarget(actionId) ==
    (CHOOSE tx \in SingletonIntents : tx.actionId = actionId).locationId

(***************************************************************************)
(* C38: if the store's unconfirmedReveal is set and its territory is       *)
(* stored, the territory's unconfirmedReveal slot holds the same intent,   *)
(* also after a reveal with another action id was cleared.                 *)
(***************************************************************************)
C38_RevealRecordsAgree ==
    ( /\ txs.unconfirmedReveal # Undefined
      /\ planets[RevealTarget(txs.unconfirmedReveal)] # NoRef )
    => Stored(RevealTarget(txs.unconfirmedReveal)).unconfirmedReveal = txs.unconfirmedReveal

(***************************************************************************)
(* C39 as stated: for every singleton kind, while an intent attached to a  *)
(* stored territory or item is not cleared, the slot of the kind of that   *)
(* territory and of that item is set, also after another intent of the     *)
(* same kind on the same entity was cleared.                               *)
(***************************************************************************)
C39_SlotSetWhilePending ==
    \A tx \in SingletonIntents :
        IsPending(tx)
        => /\ planets[tx.locationId] # NoRef
                => Stored(tx.locationId)[planetSlot(tx.kind)] # Undefined
           /\ ( tx.kind \in ArtifactKinds /\ tx.artifactId \in DOMAIN artifacts )
                => artifacts[tx.artifactId][artifactSlot(tx.kind)] # Undefined

(***************************************************************************)
(* C39: for every singleton kind, the slot of a stored territory or item   *)
(* holds the intent of the latest onTxIntent of the kind on that entity    *)
(* until the next clearUnconfirmedTxIntent of the kind on that entity,     *)
(* which empties the slot whatever intent it holds; no other call changes  *)
(* the slot.                                                               *)
(***************************************************************************)
C39_SlotFollowsLatestCall ==
    [][ LET call == lastOp'
            isCall == call.op \in {"onTxIntent", "clearUnconfirmedTxIntent"}
        IN  /\ \A l \in LocationIds, kind \in SingletonKinds :
                 planets[l] # NoRef
                 => heap'[planets'[l]][planetSlot(kind)]
                      = IF isCall /\ call.tx.kind = kind /\ call.tx.locationId = l
                        THEN IF call.op = "onTxIntent" THEN call.tx.actionId ELSE Undefined
                        ELSE heap[planets[l]][planetSlot(kind)]
            /\ \A a \in DOMAIN artifacts, kind \in SingletonKinds \cap ArtifactKinds :
                 artifacts'[a][artifactSlot(kind)]
                   = IF isCall /\ call.tx.kind = kind /\ call.tx.artifactId = a
                     THEN IF call.op = "onTxIntent" THEN call.tx.actionId ELSE Undefined
                     ELSE artifacts[a][artifactSlot(kind)] ]_vars

(* one of two pending deposits of an artifact was cleared: the slot of the *)
(* artifact is empty, the territory of the other deposit still holds it    *)
C39_Witness ==
    /\ lastOp.op = "clearUnconfirmedTxIntent"
    /\ lastOp.tx.kind = "deposit"
    /\ \E other \in SingletonIntents :
         /\ other.actionId # lastOp.tx.actionId
         /\ other.kind = "deposit"
         /\ other.artifactId = lastOp.tx.artifactId
         /\ IsPending(other)
         /\ planets[other.locationId] # NoRef
         /\ Stored(other.locationId).unconfirmedDepositArtifact = other.actionId
    /\ artifacts[lastOp.tx.artifactId].unconfirmedDepositArtifact = Undefined

(* the handles setTimeout can have returned *)
Handles == {1, 2} \X (1..(MaxReplaces + 1))

(* the timer with a handle is scheduled and has neither fired nor been cleared *)
IsScheduled(handle) == \E t \in timers : t.handle = handle

(***************************************************************************)
(* C40: every arrival that is given a timer is eventually resolved by      *)
(* arrive(), run by its timer when the clock has reached its arrival time, *)
(* or cancelled by a reconciliation with a fresh arrival list for its      *)
(* destination; it does not stay scheduled forever.                        *)
(***************************************************************************)
C40_ScheduledEventuallySettled ==
    \A handle \in Handles :
        IsScheduled(handle)
        ~> ( /\ ~IsScheduled(handle)
             /\ \/ /\ lastOp.op = "applyFutureArrival"
                    /\ lastOp.handle = handle
                    /\ now >= lastOp.arrival.arrivalTime
                \/ handle \in cancelled )

(* a timer scheduled for a later second has fired after the clock reached  *)
(* its arrival time, and another timer was cancelled before                *)
C40_Witness ==
    /\ lastOp.op = "applyFutureArrival"
    /\ ~IsScheduled(lastOp.handle)
    /\ lastOp.handle \notin cancelled
    /\ now >= lastOp.arrival.arrivalTime
    /\ cancelled # {}
    /\ appliedCount[lastOp.arrival.eventId] = 1

====
